---- MODULE Spec2Model ----
(***************************************************************************)
(* MeshMail identity and attestation subsystem.                            *)
(*                                                                         *)
(* Strings are sequences of one-character strings, byte arrays are         *)
(* sequences of numbers 0..255, and an optional value (null / absent) is   *)
(* a set with at most one element.                                         *)
(***************************************************************************)
EXTENDS Integers, Sequences, FiniteSets, TLC

VARIABLES
    users,      \* backend: the users table, in insertion order
    runs,       \* backend: the registerAddressAction invocations
    store,      \* device: the secure store, key -> value or absent
    app,        \* device: the state of App (appState, meshHandle, keyPair)
    screen,     \* device: the state of SetupScreen
    checks,     \* device: the availability checks SetupScreen has issued
    submit,     \* device: the invocation of SetupScreen.handleSubmit
    restore,    \* device: the invocation of SetupScreen.handleRestoreAccount
    faults,     \* device: failed store writes and lost responses so far
    bk,         \* device: the recovery code in hand and what it was made from
    va,         \* one text given to the two address validators and the query
    life,       \* device: initializeApp, resetAllData or deleteAllKeys running
    nt,         \* device: the calls of tasks.ts that read and write notifications
    cx          \* one use of the attestation codec: sign, present, verify

backendVars == <<users, runs>>
deviceVars ==
    <<store, app, screen, checks, submit, restore, faults, bk, va, life, nt>>
vars ==
    <<users, runs, store, app, screen, checks, submit, restore, faults, bk, va,
      life, nt, cx>>

None == {}
Some(v) == {v}
The(o) == CHOOSE v \in o : TRUE

(***************************************************************************)
(* Characters and the JavaScript string functions the code uses.           *)
(* Printable lists the ASCII characters 32..126 in code order; "GRAVE"     *)
(* stands for the backquote (code 96), which a TLA+ string cannot hold.    *)
(***************************************************************************)
Printable ==
    <<" ", "!", "\"", "#", "$", "%", "&", "'", "(", ")", "*", "+", ",", "-",
    ".", "/", "0", "1", "2", "3", "4", "5", "6", "7", "8", "9", ":", ";", "<",
    "=", ">", "?", "@", "A", "B", "C", "D", "E", "F", "G", "H", "I", "J", "K",
    "L", "M", "N", "O", "P", "Q", "R", "S", "T", "U", "V", "W", "X", "Y", "Z",
    "[", "\\", "]", "^", "_", "GRAVE", "a", "b", "c", "d", "e", "f", "g", "h", "i",
    "j", "k", "l", "m", "n", "o", "p", "q", "r", "s", "t", "u", "v", "w", "x",
    "y", "z", "{", "|", "}", "~">>

Range(s) == {s[i] : i \in DOMAIN s}

UpperLetters == {Printable[i] : i \in 34..59}
LowerLetters == {Printable[i] : i \in 66..91}
Digits == {Printable[i] : i \in 17..26}
Whitespace == {" ", "\t", "\n"}
Chars == Range(Printable) \cup Whitespace

\* The UTF-8 code of an ASCII character.
CharCodeTable ==
    [c \in Chars |->
        IF c = "\t" THEN 9
        ELSE IF c = "\n" THEN 10
        ELSE 31 + (CHOOSE i \in DOMAIN Printable : Printable[i] = c)]

\* String.prototype.toLowerCase on one character.
LowerCharTable ==
    [c \in Chars |->
        IF c \in UpperLetters THEN Printable[(CharCodeTable[c] - 31) + 32] ELSE c]

toLowerCase(s) == [i \in DOMAIN s |-> LowerCharTable[s[i]]]

\* String.prototype.trim: strips whitespace at both ends.
trim(s) ==
    LET keep == {i \in DOMAIN s : s[i] \notin Whitespace}
    IN  IF keep = {} THEN <<>>
        ELSE SubSeq(s, CHOOSE i \in keep : \A j \in keep : i <= j,
                       CHOOSE i \in keep : \A j \in keep : j <= i)

startsWith(s, prefix) ==
    /\ Len(prefix) <= Len(s)
    /\ SubSeq(s, 1, Len(prefix)) = prefix

\* TextEncoder.encode / Buffer.from(s, 'utf-8') on ASCII text.
utf8Encode(s) == [i \in DOMAIN s |-> CharCodeTable[s[i]]]

\* The string of n copies of character c, and two sample addresses.
Str(n, c) == [i \in 1..n |-> c]

Alice == <<"a", "l", "i", "c", "e">>
Bob == <<"b", "o", "b">>

(***************************************************************************)
(* Address validation.                                                     *)
(***************************************************************************)
MaxAddressLength == 16

RESERVED_PREFIXES ==
    <<  <<"9", "1", "1">>,
        <<"h", "e", "l", "p">>,
        <<"i", "n", "f", "o">>,
        <<"a", "d", "m", "i", "n">>,
        <<"s", "u", "p", "p", "o", "r", "t">>,
        <<"n", "o", "r", "e", "p", "l", "y">>,
        <<"p", "o", "s", "t", "m", "a", "s", "t", "e", "r">>,
        <<"a", "b", "u", "s", "e">>,
        <<"s", "e", "c", "u", "r", "i", "t", "y">>,
        <<"r", "o", "o", "t">>,
        <<"s", "y", "s", "t", "e", "m">>,
        <<"m", "a", "i", "l">>,
        <<"t", "e", "s", "t">>  >>

\* /^[a-z0-9.]{1,16}$/
MatchesAddressFormat(s) ==
    /\ Len(s) >= 1
    /\ Len(s) <= MaxAddressLength
    /\ \A i \in DOMAIN s : s[i] \in LowerLetters \cup Digits \cup {"."}

\* /^[a-z]/
StartsWithLetter(s) == Len(s) >= 1 /\ s[1] \in LowerLetters

HasReservedPrefix(s) ==
    \E i \in DOMAIN RESERVED_PREFIXES : startsWith(s, RESERVED_PREFIXES[i])

\* Faulty variant, for comparison: the format is tested on the trimmed text
\* as given, before the comparison with its lowercased form.
validateAddress_FormatBeforeCase(address) ==
    LET normalized == toLowerCase(trim(address))
    IN  IF ~MatchesAddressFormat(trim(address)) THEN "invalid_format"
        ELSE IF trim(address) # normalized THEN "must_be_lowercase"
        ELSE IF ~StartsWithLetter(normalized) THEN "must_start_with_letter"
        ELSE IF HasReservedPrefix(normalized) THEN "reserved_prefix"
        ELSE "valid"

\* The backend validator: "valid" or the reason of the first failing check.
validateAddress(address) ==
    LET normalized == toLowerCase(trim(address))
    IN  IF trim(address) # normalized THEN "must_be_lowercase"
        ELSE IF ~MatchesAddressFormat(normalized) THEN "invalid_format"
        ELSE IF ~StartsWithLetter(normalized) THEN "must_start_with_letter"
        ELSE IF HasReservedPrefix(normalized) THEN "reserved_prefix"
        ELSE "valid"

\* The client validator: "valid" or the error text shown to the user.
validateAddressFormat(address) ==
    IF address # toLowerCase(address) THEN "Must be lowercase"
    ELSE IF ~MatchesAddressFormat(address) THEN
        IF Len(address) = 0 THEN "Required"
        ELSE IF Len(address) > MaxAddressLength THEN "Max 16 characters"
        ELSE "Letters, numbers, periods only"
    ELSE IF ~StartsWithLetter(address) THEN "Must start with a letter"
    ELSE IF HasReservedPrefix(address) THEN "prefix is reserved"
    ELSE "valid"

(***************************************************************************)
(* Base64 and hex, as Buffer implements them.                              *)
(***************************************************************************)
Base64Alphabet ==
    <<"A", "B", "C", "D", "E", "F", "G", "H", "I", "J", "K", "L", "M", "N", "O",
    "P", "Q", "R", "S", "T", "U", "V", "W", "X", "Y", "Z", "a", "b", "c", "d",
    "e", "f", "g", "h", "i", "j", "k", "l", "m", "n", "o", "p", "q", "r", "s",
    "t", "u", "v", "w", "x", "y", "z", "0", "1", "2", "3", "4", "5", "6", "7",
    "8", "9", "+", "/">>

HexDigits ==
    <<"0", "1", "2", "3", "4", "5", "6", "7", "8", "9", "a", "b", "c", "d", "e",
    "f">>

Base64ValueTable ==
    [c \in Range(Base64Alphabet) \cup {"-", "_"} |->
        IF c = "-" THEN 62
        ELSE IF c = "_" THEN 63
        ELSE (CHOOSE i \in DOMAIN Base64Alphabet : Base64Alphabet[i] = c) - 1]

HexValueTable ==
    [c \in Range(HexDigits) |->
        (CHOOSE i \in DOMAIN HexDigits : HexDigits[i] = c) - 1]

\* Buffer.prototype.toString('base64'): three bytes to four characters,
\* padded with "=".
bufferToBase64(bytes) ==
    LET n == Len(bytes)
        byteAt(i) == IF i <= n THEN bytes[i] ELSE 0
        charAt(p) ==
            LET g == (p - 1) \div 4
                q == (p - 1) % 4
                b0 == byteAt(3 * g + 1)
                b1 == byteAt(3 * g + 2)
                b2 == byteAt(3 * g + 3)
            IN  IF q = 0 THEN Base64Alphabet[(b0 \div 4) + 1]
                ELSE IF q = 1 THEN
                    Base64Alphabet[((b0 % 4) * 16 + (b1 \div 16)) + 1]
                ELSE IF q = 2 THEN
                    IF 3 * g + 2 > n THEN "="
                    ELSE Base64Alphabet[((b1 % 16) * 4 + (b2 \div 64)) + 1]
                ELSE
                    IF 3 * g + 3 > n THEN "="
                    ELSE Base64Alphabet[(b2 % 64) + 1]
    IN  [p \in 1..(4 * ((n + 2) \div 3)) |-> charAt(p)]

IsBase64Char(c) == c \in DOMAIN Base64ValueTable

\* Buffer.from(s, 'base64'): reads up to the first "=", skips characters
\* outside the alphabet, and drops bits that do not fill a byte.
bufferFromBase64(s) ==
    LET pads == {i \in DOMAIN s : s[i] = "="}
        stop == IF pads = {} THEN Len(s) + 1
                ELSE CHOOSE i \in pads : \A j \in pads : i <= j
        data == SelectSeq(SubSeq(s, 1, stop - 1), IsBase64Char)
        sext(i) == Base64ValueTable[data[i]]
        byteAt(j) ==
            LET bit == 8 * (j - 1)
                i == (bit \div 6) + 1
                r == bit % 6
            IN  IF r = 0 THEN sext(i) * 4 + (sext(i + 1) \div 16)
                ELSE IF r = 2 THEN (sext(i) % 16) * 16 + (sext(i + 1) \div 4)
                ELSE (sext(i) % 4) * 64 + sext(i + 1)
    IN  [j \in 1..((Len(data) * 6) \div 8) |-> byteAt(j)]

\* Buffer.prototype.toString('hex') and crypto.ts bytesToHex.
bytesToHex(bytes) ==
    [p \in 1..(2 * Len(bytes)) |->
        LET b == bytes[((p - 1) \div 2) + 1]
        IN  IF p % 2 = 1 THEN HexDigits[(b \div 16) + 1]
            ELSE HexDigits[(b % 16) + 1]]

\* crypto.ts hexToBytes: one byte from every two hex digits.
hexToBytes(hex) ==
    [j \in 1..(Len(hex) \div 2) |->
        HexValueTable[hex[2 * j - 1]] * 16 + HexValueTable[hex[2 * j]]]

(***************************************************************************)
(* The canonical attestation message, built on the client and on the       *)
(* server.                                                                 *)
(***************************************************************************)
\* The literal parts of the client's template string.
ClientLine1 ==
    <<"m", "e", "s", "h", "m", "a", "i", "l", ".", "a", "t", "t", "e", "s",
    "t", "a", "t", "i", "o", "n", ".", "v", "1">>

ClientLine2Label ==
    <<"a", "d", "d", "r", "e", "s", "s", ":", " ">>

ClientLine3Label ==
    <<"p", "u", "b", "k", "e", "y", "_", "e", "d", "2", "5", "5", "1", "9",
    "_", "h", "e", "x", ":", " ">>

\* Faulty variant, for comparison: the client also normalises the case of the public key.
buildAttestationMessage_LowerKey(address, publicKeyHex) ==
    ClientLine1 \o <<"\n">> \o ClientLine2Label \o toLowerCase(address)
        \o <<"\n">> \o ClientLine3Label \o toLowerCase(publicKeyHex)

\* Faulty variant, for comparison: the client uses the address as given.
buildAttestationMessage_NoLower(address, publicKeyHex) ==
    ClientLine1 \o <<"\n">> \o ClientLine2Label \o address
        \o <<"\n">> \o ClientLine3Label \o publicKeyHex

\* Client: lib/crypto.ts buildAttestationMessage.
buildAttestationMessage(address, publicKeyHex) ==
    LET normalized == toLowerCase(address)
    IN  ClientLine1 \o <<"\n">> \o ClientLine2Label \o normalized
            \o <<"\n">> \o ClientLine3Label \o publicKeyHex

\* The literal parts of the server's template string.
ServerLine1 ==
    <<"m", "e", "s", "h", "m", "a", "i", "l", ".", "a", "t", "t", "e", "s",
    "t", "a", "t", "i", "o", "n", ".", "v", "1">>

ServerLine2Label ==
    <<"a", "d", "d", "r", "e", "s", "s", ":", " ">>

ServerLine3Label ==
    <<"p", "u", "b", "k", "e", "y", "_", "e", "d", "2", "5", "5", "1", "9",
    "_", "h", "e", "x", ":", " ">>

\* Faulty variant, for comparison: the server ends the message with a newline.
kmsBuildAttestationMessage_TrailingNewline(address, publicKeyHex) ==
    ServerLine1 \o <<"\n">> \o ServerLine2Label \o toLowerCase(address)
        \o <<"\n">> \o ServerLine3Label \o publicKeyHex \o <<"\n">>

\* Server: convex/lib/kms.ts buildAttestationMessage.
kmsBuildAttestationMessage(address, publicKeyHex) ==
    LET normalized == toLowerCase(address)
    IN  ServerLine1 \o <<"\n">> \o ServerLine2Label \o normalized
            \o <<"\n">> \o ServerLine3Label \o publicKeyHex

(***************************************************************************)
(* Ed25519 as an ideal signature scheme: the signature of a message under  *)
(* a key pair is a fixed function of the message bytes and the key (here   *)
(* the public half followed by the message), and only that value verifies. *)
(***************************************************************************)
ed25519Sign(signerPublicKey, messageBytes) == signerPublicKey \o messageBytes

ed25519Verify(signatureBytes, messageBytes, publicKeyBytes) ==
    signatureBytes = ed25519Sign(publicKeyBytes, messageBytes)

RawKeyLength == 32

AUTHORITY_PUBLIC_KEY_PEM_BODY ==
    <<"M", "C", "o", "w", "B", "Q", "Y", "D", "K", "2", "V", "w", "A", "y", "E",
    "A", "A", "q", "j", "8", "x", "w", "n", "6", "R", "C", "m", "Z", "u", "O",
    "L", "P", "t", "R", "w", "a", "V", "S", "T", "z", "J", "7", "1", "S", "S",
    "1", "a", "E", "f", "2", "X", "C", "i", "4", "I", "E", "n", "D", "A", "=">>

\* derBytes.slice(-32): the raw key is the last 32 bytes of the DER payload.
AuthorityPublicKeyBytes ==
    LET derBytes == hexToBytes(bytesToHex(bufferFromBase64(AUTHORITY_PUBLIC_KEY_PEM_BODY)))
        n == Len(derBytes)
    IN  SubSeq(derBytes, IF n > RawKeyLength THEN n - RawKeyLength + 1 ELSE 1, n)

\* The key pair held by the key-management service (key version 1) is the one
\* whose public half the client ships as AUTHORITY_PUBLIC_KEY_PEM.
KmsKeyVersionPublicKey == AuthorityPublicKeyBytes

\* client.asymmetricSign({name, data}) when the service answers.
kmsAsymmetricSign(data) == ed25519Sign(KmsKeyVersionPublicKey, data)

\* Server: signAttestation when the service answers with a signature.
signAttestation(address, publicKeyHex) ==
    LET message == kmsBuildAttestationMessage(address, publicKeyHex)
        messageBytes == utf8Encode(message)
    IN  bufferToBase64(kmsAsymmetricSign(messageBytes))

\* ed25519.verify throws for a signature or a key that does not have the
\* length of one.
ed25519VerifyThrows(signatureBytes, messageBytes, publicKeyBytes) ==
    \/ Len(signatureBytes) # Len(ed25519Sign(publicKeyBytes, messageBytes))
    \/ Len(publicKeyBytes) # RawKeyLength

\* Client: the try block of verifyAttestation: "true", "false" or "threw".
verifyAttestationTry(address, publicKeyHex, signatureBase64) ==
    LET message == buildAttestationMessage(address, publicKeyHex)
        messageBytes == utf8Encode(message)
        signatureBytes == hexToBytes(bytesToHex(bufferFromBase64(signatureBase64)))
    IN  IF ed25519VerifyThrows(signatureBytes, messageBytes,
                               AuthorityPublicKeyBytes)
        THEN "threw"
        ELSE IF ed25519Verify(signatureBytes, messageBytes,
                              AuthorityPublicKeyBytes)
        THEN "true" ELSE "false"

\* Faulty variant, for comparison: no catch block.
verifyAttestationOutcome_NoCatch(address, publicKeyHex, signatureBase64) ==
    verifyAttestationTry(address, publicKeyHex, signatureBase64)

\* Client: verifyAttestation with its catch block, which returns false.
verifyAttestationOutcome(address, publicKeyHex, signatureBase64) ==
    LET tried == verifyAttestationTry(address, publicKeyHex, signatureBase64)
    IN  IF tried = "threw" THEN "false" ELSE tried

\* Client: the boolean verifyAttestation resolves to.
verifyAttestation(address, publicKeyHex, signatureBase64) ==
    verifyAttestationOutcome(address, publicKeyHex, signatureBase64) = "true"

PublicKeyHexLength == 64

\* /^[a-f0-9]{64}$/i
MatchesPublicKeyFormat(publicKey) ==
    /\ Len(publicKey) = PublicKeyHexLength
    /\ \A i \in DOMAIN publicKey :
          toLowerCase(<<publicKey[i]>>)[1] \in Range(HexDigits)

(***************************************************************************)
(* The backend: the users table, the availability query, the insert        *)
(* mutation and the registration action.  A query and a mutation each run  *)
(* as one transaction; an action is not a transaction, and other           *)
(* transactions run between its awaits.                                    *)
(***************************************************************************)
MaxRuns == 2
MaxUsers == 2

RunIds == 1..MaxRuns

\* ctx.db.query('users').withIndex('by_address', q => q.eq('address', a)):
\* the rows the index returns for one address.  The index orders rows and
\* rejects none.
withIndexByAddress(table, address) ==
    {i \in DOMAIN table : table[i].address = address}

\* Faulty variant, for comparison: the lookup uses the address as given.
isAddressAvailable_AsGiven(table, address) ==
    LET validation == validateAddress(address)
        existing == withIndexByAddress(table, address)
    IN  IF validation # "valid" THEN [available |-> FALSE, reason |-> validation]
        ELSE IF Cardinality(existing) > 1 THEN
            [available |-> FALSE, reason |-> "unique() threw"]
        ELSE IF existing = {} THEN [available |-> TRUE, reason |-> "available"]
        ELSE [available |-> FALSE, reason |-> "taken"]

\* convex/users.ts isAddressAvailable. unique() throws on several matches.
isAddressAvailable(table, address) ==
    LET validation == validateAddress(address)
        normalized == toLowerCase(trim(address))
        existing == withIndexByAddress(table, normalized)
    IN  IF validation # "valid" THEN [available |-> FALSE, reason |-> validation]
        ELSE IF Cardinality(existing) > 1 THEN
            [available |-> FALSE, reason |-> "unique() threw"]
        ELSE IF existing = {} THEN [available |-> TRUE, reason |-> "available"]
        ELSE [available |-> FALSE, reason |-> "taken"]

\* Faulty variant, for comparison: the mutation trusts the earlier availability result and inserts
\* without looking the address up itself.
registerAddressMutation_NoRecheck(table, address, publicKey, signature) ==
    IF validateAddress(address) # "valid" THEN
        [table |-> table, error |-> "Invalid address"]
    ELSE
        [table |-> Append(table, [address |-> toLowerCase(address),
                                  publicKey |-> publicKey,
                                  signature |-> signature]),
         error |-> ""]

\* convex/users.ts registerAddressMutation: the table after the call and the
\* error it throws ("" when it returns { success: true }).
registerAddressMutation(table, address, publicKey, signature) ==
    LET validation == validateAddress(address)
        normalized == toLowerCase(address)
        existing == withIndexByAddress(table, normalized)
    IN  IF validation # "valid" THEN
            [table |-> table, error |-> "Invalid address"]
        ELSE IF Cardinality(existing) > 1 THEN
            [table |-> table, error |-> "unique() threw"]
        ELSE IF existing # {} THEN
            [table |-> table, error |-> "Address already taken"]
        ELSE
            [table |-> Append(table, [address |-> normalized,
                                      publicKey |-> publicKey,
                                      signature |-> signature]),
             error |-> ""]

\* The error registerAddressAction throws for an unavailable address.
AvailabilityError(reason) ==
    CASE reason = "taken" -> "Address already taken"
      [] reason = "must_start_with_letter" -> "Address must start with a letter"
      [] reason = "reserved_prefix" -> "This address prefix is reserved"
      [] reason = "must_be_lowercase" -> "Address must be lowercase"
      [] reason = "invalid_format" -> "Invalid address format"
      [] reason = "unique() threw" -> "unique() threw"
      [] OTHER -> "Address not available"

\* The codec record before any use.
CxIdle ==
    [pc |-> "idle", address |-> <<>>, publicKey |-> <<>>, signature |-> <<>>,
     address2 |-> <<>>, publicKey2 |-> <<>>, signature2 |-> <<>>,
     verdict |-> None, outcome |-> "", clientMessage |-> <<>>,
     serverMessage |-> <<>>,
     clientMessageLower |-> <<>>, clientMessageAgain |-> <<>>]

IdleRun ==
    [pc |-> "idle", address |-> <<>>, publicKey |-> <<>>, trimmed |-> <<>>,
     signature |-> None, error |-> ""]

RunFailed(run, error) == [run EXCEPT !.pc = "failed", !.error = error]

\* registerAddressAction up to its first await: normalise the address, check
\* the public key format, issue the availability query.
ActionBegin(address, publicKey) ==
    LET trimmed == toLowerCase(trim(address))
        run == [IdleRun EXCEPT !.address = address, !.publicKey = publicKey,
                               !.trimmed = trimmed]
    IN  IF ~MatchesPublicKeyFormat(publicKey)
        THEN RunFailed(run, "Invalid public key format")
        ELSE [run EXCEPT !.pc = "query"]

\* Faulty variant, for comparison: the action signs first and asks for availability afterwards.
ActionAfterQuery_SignRegardless(run, availability) ==
    [run EXCEPT !.pc = "sign"]

\* registerAddressAction after ctx.runQuery(isAddressAvailable) returned.
ActionAfterQuery(run, availability) ==
    IF ~availability.available
    THEN RunFailed(run, AvailabilityError(availability.reason))
    ELSE [run EXCEPT !.pc = "sign"]

\* Faulty variant, for comparison: the action returns the signature whatever the mutation did.
ActionAfterMutation_IgnoreError(run, result) ==
    [run EXCEPT !.pc = "done"]

\* registerAddressAction after ctx.runMutation(registerAddressMutation): the
\* mutation's error propagates, otherwise { signature } is returned.
ActionAfterMutation(run, result) ==
    IF result.error # "" THEN RunFailed(run, result.error)
    ELSE [run EXCEPT !.pc = "done"]

BackendAddresses ==
    { Bob,
      <<" ", "B", "o", "b", " ">>,
      Alice,
      <<"h", "e", "l", "p", "1">> }

BackendKeys ==
    { Str(PublicKeyHexLength, "a"),
      <<"a", "b">> }

\* A client calls registerAddressAction.
ActionStart(r) ==
    /\ runs[r].pc = "idle"
    /\ \A q \in RunIds : q < r => runs[q].pc # "idle"
    /\ \E address \in BackendAddresses, publicKey \in BackendKeys :
          runs' = [runs EXCEPT ![r] = ActionBegin(address, publicKey)]
    /\ UNCHANGED <<users, cx, deviceVars>>

\* Public keys of every shape: 64 lowercase hex digits, capitals, mixed
\* case, a digit outside hex, 63 and 65 digits, two digits, none.
ShapedKeys ==
    { Str(PublicKeyHexLength, "a"),
      Str(PublicKeyHexLength, "0"),
      Str(PublicKeyHexLength, "A"),
      Str(PublicKeyHexLength - 1, "a") \o <<"F">>,
      Str(PublicKeyHexLength - 1, "a") \o <<"g">>,
      Str(PublicKeyHexLength - 1, "a"),
      Str(PublicKeyHexLength + 1, "a"),
      <<"a", "b">>,
      <<>> }

ShapedAddresses ==
    BackendAddresses \cup { <<"1", "a", "b", "c">>, <<"A", "b", "c">>, <<>> }

\* A client calls registerAddressAction with a public key of any shape.
ActionStartShaped ==
    /\ \A r \in RunIds : runs[r].pc = "idle"
    /\ \E address \in ShapedAddresses, publicKey \in ShapedKeys :
          runs' = [runs EXCEPT ![1] = ActionBegin(address, publicKey)]
    /\ UNCHANGED <<users, cx, deviceVars>>

\* The availability query of run r executes.
ActionQuery(r) ==
    /\ runs[r].pc = "query"
    /\ runs' = [runs EXCEPT ![r] =
            ActionAfterQuery(runs[r], isAddressAvailable(users, runs[r].trimmed))]
    /\ UNCHANGED <<users, cx, deviceVars>>

\* signAttestation of run r completes: with a signature, or by throwing
\* (missing configuration, the service call fails, no signature returned).
ActionSign(r) ==
    /\ runs[r].pc = "sign"
    /\ \/ runs' = [runs EXCEPT ![r] =
              [runs[r] EXCEPT
                  !.pc = "mutate",
                  !.signature =
                      Some(signAttestation(runs[r].trimmed, runs[r].publicKey))]]
       \/ runs' = [runs EXCEPT ![r] = RunFailed(runs[r], "KMS signing failed")]
    /\ UNCHANGED <<users, cx, deviceVars>>

\* The insert mutation of run r executes.
ActionMutate(r) ==
    /\ runs[r].pc = "mutate"
    /\ LET result == registerAddressMutation(users, runs[r].trimmed,
                         runs[r].publicKey, The(runs[r].signature))
       IN  /\ users' = result.table
           /\ runs' = [runs EXCEPT ![r] = ActionAfterMutation(runs[r], result)]
    /\ UNCHANGED <<cx, deviceVars>>

DirectAddresses ==
    { Bob,
      <<" ", "b", "o", "b">>,
      <<"B", "o", "b">> }

DirectKeys == { <<"a", "b">> }

DirectSignatures == { <<"A", "A", "A", "A">> }

\* A client calls the exported registerAddressMutation itself, with arguments
\* of its choice.
DirectMutation ==
    /\ Len(users) < MaxUsers
    /\ \E address \in DirectAddresses, publicKey \in DirectKeys,
          signature \in DirectSignatures :
          LET result == registerAddressMutation(users, address, publicKey, signature)
          IN  /\ result.error = ""
              /\ users' = result.table
    /\ UNCHANGED <<runs, cx, deviceVars>>

(***************************************************************************)
(* The attestation codec on its own: the authority signs (address,         *)
(* publicKey), a holder presents a triple that may differ from the signed  *)
(* one, and the client verifies it.                                        *)
(***************************************************************************)
CryptoAddresses ==
    { Alice, Bob,
      <<"A", "l", "i", "c", "e">>,
      <<"A", "L", "I", "C", "E">>,
      <<" ", "a", "l", "i", "c", "e">>,
      <<"a", "l", "i", "c", "e", ".", "1">>,
      <<"h", "e", "l", "p", "1">>,
      <<>> }

CryptoKeys ==
    { Str(PublicKeyHexLength, "a"),
      Str(PublicKeyHexLength, "b"),
      Str(PublicKeyHexLength, "A"),
      <<"a", "b">> }

CxInput(address, publicKey) ==
    [CxIdle EXCEPT !.pc = "input", !.address = address, !.publicKey = publicKey]

\* Both sides build the message for the same input; the client builds it again
\* and for the lowercased address.
CxBuildMessages ==
    /\ cx.pc = "input"
    /\ cx' = [cx EXCEPT
            !.pc = "built",
            !.clientMessage = buildAttestationMessage(cx.address, cx.publicKey),
            !.serverMessage = kmsBuildAttestationMessage(cx.address, cx.publicKey),
            !.clientMessageLower =
                buildAttestationMessage(toLowerCase(cx.address), cx.publicKey),
            !.clientMessageAgain =
                buildAttestationMessage(cx.address, cx.publicKey)]
    /\ UNCHANGED <<backendVars, deviceVars>>

\* The authority signs the input.
CxSign ==
    /\ cx.pc = "input"
    /\ cx' = [cx EXCEPT
            !.pc = "signed",
            !.signature = signAttestation(cx.address, cx.publicKey),
            !.address2 = cx.address,
            !.publicKey2 = cx.publicKey,
            !.signature2 = signAttestation(cx.address, cx.publicKey)]
    /\ UNCHANGED <<backendVars, deviceVars>>

CxPresentSame ==
    /\ cx.pc = "signed"
    /\ cx' = [cx EXCEPT !.pc = "presented"]
    /\ UNCHANGED <<backendVars, deviceVars>>

CxChangeAddress ==
    /\ cx.pc = "signed"
    /\ \E a \in CryptoAddresses \ {cx.address} :
          cx' = [cx EXCEPT !.pc = "presented", !.address2 = a]
    /\ UNCHANGED <<backendVars, deviceVars>>

CxChangeKey ==
    /\ cx.pc = "signed"
    /\ \E k \in CryptoKeys \ {cx.publicKey} :
          cx' = [cx EXCEPT !.pc = "presented", !.publicKey2 = k]
    /\ UNCHANGED <<backendVars, deviceVars>>

\* One byte of the signature is replaced by another value.
CxFlipByte ==
    /\ cx.pc = "signed"
    /\ LET bytes == bufferFromBase64(cx.signature)
       IN  \E p \in DOMAIN bytes, d \in {1, 128, 255} :
              cx' = [cx EXCEPT
                  !.pc = "presented",
                  !.signature2 =
                      bufferToBase64([bytes EXCEPT ![p] = (bytes[p] + d) % 256])]
    /\ UNCHANGED <<backendVars, deviceVars>>

\* The signature loses its last byte, or gains one.
CxResize ==
    /\ cx.pc = "signed"
    /\ LET bytes == bufferFromBase64(cx.signature)
       IN  \E resized \in {SubSeq(bytes, 1, Len(bytes) - 1), bytes \o <<0>>} :
              cx' = [cx EXCEPT
                  !.pc = "presented", !.signature2 = bufferToBase64(resized)]
    /\ UNCHANGED <<backendVars, deviceVars>>

\* The same signature bytes in another base64 spelling: a line break added,
\* the padding dropped.
CxRespell ==
    /\ cx.pc = "signed"
    /\ \E spelled \in {cx.signature \o <<"\n">>,
                       SelectSeq(cx.signature, LAMBDA c : c # "=")} :
          cx' = [cx EXCEPT !.pc = "presented", !.signature2 = spelled]
    /\ UNCHANGED <<backendVars, deviceVars>>

\* Texts that are no signature: empty, not base64, too short, padding only.
MalformedSignatures ==
    { <<>>,
      <<"!", "?", " ", "#">>,
      <<"A">>,
      <<"Q", "U", "J", "D">>,
      <<"=", "=", "=", "=">> }

MalformedKeys == { <<>>, <<"z", "z">>, <<"0", "x", "G">> }

\* The holder presents a triple with a text that is no signature, with the
\* signed address and key or with an empty address or a key that is not hex.
CxMalform ==
    /\ cx.pc = "signed"
    /\ \E a \in {cx.address, <<>>}, k \in {cx.publicKey} \cup MalformedKeys,
          s \in MalformedSignatures :
          cx' = [cx EXCEPT !.pc = "presented", !.address2 = a,
                           !.publicKey2 = k, !.signature2 = s]
    /\ UNCHANGED <<backendVars, deviceVars>>

CxVerify ==
    /\ cx.pc = "presented"
    /\ cx' = [cx EXCEPT
            !.pc = "verified",
            !.verdict =
                Some(verifyAttestation(cx.address2, cx.publicKey2, cx.signature2)),
            !.outcome =
                verifyAttestationOutcome(cx.address2, cx.publicKey2,
                                         cx.signature2)]
    /\ UNCHANGED <<backendVars, deviceVars>>

(***************************************************************************)
(* Two registerAddressAction runs for one address, and nothing else.       *)
(***************************************************************************)
RaceRuns == 1..2

RaceKeys ==
    { Str(PublicKeyHexLength, "a"),
      Str(PublicKeyHexLength, "b"),
      <<"a", "b">> }

\* A client calls registerAddressAction for the address the other run
\* normalises to as well.
RaceStart(r) ==
    /\ runs[r].pc = "idle"
    /\ \E address \in BackendAddresses, publicKey \in RaceKeys :
          /\ \A q \in RaceRuns :
                runs[q].pc # "idle" => runs[q].trimmed = toLowerCase(trim(address))
          /\ runs' = [runs EXCEPT ![r] = ActionBegin(address, publicKey)]
    /\ UNCHANGED <<users, cx, deviceVars>>

(***************************************************************************)
(* The device: the secure store and SetupScreen's address field with its   *)
(* debounced availability check.                                           *)
(***************************************************************************)
PRIVATE_KEY == "meshmail_private_key"
PUBLIC_KEY == "meshmail_public_key"
MESH_HANDLE == "meshmail_mesh_handle"
AUTHORITY_SIGNATURE == "meshmail_authority_signature"

KEYS == {PRIVATE_KEY, PUBLIC_KEY, MESH_HANDLE, AUTHORITY_SIGNATURE}

\* The secure-store keys of BackupScreen and of the task list.
LAST_BACKUP_SAVED == "lastBackupSaved"
NOTIFICATIONS == "notifications"

STORE_KEYS == KEYS \cup {LAST_BACKUP_SAVED, NOTIFICATIONS}

MaxChecks == 2
MaxFaults == 1

\* No function of the app's life cycle is running: initializeApp has
\* returned and no reset is in progress.
LifeRunning ==
    [pc |-> "running", step |-> 0, launches |-> 1, resets |-> 0,
     generated |-> 1, newKeyPair |-> None, storeBefore |-> None,
     generateFailed |-> FALSE]

\* The key pair App.initializeApp generated and saved on the first launch.
DeviceKeyPair ==
    [privateKey |-> Str(PublicKeyHexLength, "1"),
     publicKey |-> Str(PublicKeyHexLength, "a")]

\* The store and App's state after the first launch.
StoreAfterFirstLaunch ==
    [k \in STORE_KEYS |->
        IF k = PRIVATE_KEY THEN Some(DeviceKeyPair.privateKey)
        ELSE IF k = PUBLIC_KEY THEN Some(DeviceKeyPair.publicKey)
        ELSE None]

AppAfterFirstLaunch ==
    [appState |-> "setup", meshHandle |-> <<>>, keyPair |-> Some(DeviceKeyPair)]

\* SecureStore.setItemAsync(key, value) when it resolves.
setItem(st, key, value) == [st EXCEPT ![key] = Some(value)]

\* SetupScreen's useState initial values.
ScreenInitial ==
    [handle |-> <<>>, isSubmitting |-> FALSE, checking |-> FALSE,
     available |-> None, errorMessage |-> "", isRestoring |-> FALSE]

Mounted == app.appState = "setup"

\* SetupScreen.handleTextChange: lowercase, drop every character outside
\* [a-z0-9.], keep at most 16.
handleTextChange(text) ==
    LET kept == SelectSeq(toLowerCase(text),
                    LAMBDA c : c \in LowerLetters \cup Digits \cup {"."})
    IN  SubSeq(kept, 1, IF Len(kept) < MaxAddressLength
                        THEN Len(kept) ELSE MaxAddressLength)

\* The effect's cleanup, clearTimeout(t): a timer that has not fired never
\* will; a query already issued stays in flight.
CleanupChecks(cs) ==
    [i \in DOMAIN cs |->
        IF cs[i].state = "timer" THEN [cs[i] EXCEPT !.state = "cancelled"]
        ELSE cs[i]]

\* The body of the availability effect for a new handle: what it sets, and
\* whether it starts a timer.
AvailabilityEffect(scr, handle) ==
    LET trimmed == trim(handle)
        validation == validateAddressFormat(trimmed)
        reset == [scr EXCEPT !.handle = handle, !.available = None,
                             !.errorMessage = ""]
    IN  IF trimmed = <<>> THEN [screen |-> reset, issue |-> FALSE]
        ELSE IF validation # "valid" THEN
            [screen |-> [reset EXCEPT !.errorMessage = validation,
                                      !.checking = FALSE],
             issue |-> FALSE]
        ELSE [screen |-> [reset EXCEPT !.checking = TRUE], issue |-> TRUE]

\* What the timer callback sets when the query returns res.
AfterAvailabilityResult(scr, res) ==
    LET message ==
            CASE res.available -> ""
              [] res.reason = "taken" -> "Address already taken"
              [] res.reason = "must_start_with_letter" -> "Must start with a letter"
              [] res.reason = "reserved_prefix" -> "This prefix is reserved"
              [] res.reason = "must_be_lowercase" -> "Must be lowercase"
              [] res.reason = "invalid_format" -> "Invalid format"
              [] OTHER -> scr.errorMessage
    IN  [scr EXCEPT !.available = Some(res.available),
                    !.errorMessage = message,
                    !.checking = FALSE]

\* What the timer callback sets when the query throws.
AfterAvailabilityError(scr) ==
    [scr EXCEPT !.available = None, !.errorMessage = "", !.checking = FALSE]

HandleTexts ==
    { Bob,
      <<"B", "o", "b", "!">>,
      Alice,
      <<"h", "e", "l", "p", "1">>,
      <<>> }

\* The user edits the address field; the effect for the previous handle is
\* cleaned up and the effect for the new one runs.
TypeHandle ==
    /\ Mounted
    /\ ~screen.isSubmitting
    /\ \E text \in HandleTexts :
          LET filtered == handleTextChange(text)
              effect == AvailabilityEffect(screen, filtered)
          IN  /\ filtered # screen.handle
              /\ effect.issue => Len(checks) < MaxChecks
              /\ screen' = effect.screen
              /\ checks' =
                    IF effect.issue
                    THEN Append(CleanupChecks(checks),
                                [handle |-> trim(filtered), state |-> "timer"])
                    ELSE CleanupChecks(checks)
    /\ UNCHANGED <<backendVars, store, app, submit, restore, faults, bk, va, life, nt, cx>>

\* The debounce timer of check i fires: the query is issued.
CheckTimerFires(i) ==
    /\ checks[i].state = "timer"
    /\ checks' = [checks EXCEPT ![i].state = "inflight"]
    /\ UNCHANGED <<backendVars, store, app, screen, submit, restore, faults, bk, va, life, nt, cx>>

\* The query of check i returns; setState on an unmounted screen does nothing.
CheckCompletes(i) ==
    /\ checks[i].state = "inflight"
    /\ checks' = [checks EXCEPT ![i].state = "done"]
    /\ screen' =
          LET res == isAddressAvailable(users, checks[i].handle)
          IN  IF ~Mounted THEN screen
              ELSE IF res.reason = "unique() threw"
              THEN AfterAvailabilityError(screen)
              ELSE AfterAvailabilityResult(screen, res)
    /\ UNCHANGED <<backendVars, store, app, submit, restore, faults, bk, va, life, nt, cx>>

\* The query of check i fails (network or server error).
CheckFails(i) ==
    /\ checks[i].state = "inflight"
    /\ checks' = [checks EXCEPT ![i].state = "failed"]
    /\ screen' = IF Mounted THEN AfterAvailabilityError(screen) ELSE screen
    /\ UNCHANGED <<backendVars, store, app, submit, restore, faults, bk, va, life, nt, cx>>

(***************************************************************************)
(* The device: SetupScreen.handleSubmit, the restore flow and               *)
(* App.handleSetupComplete, one step per await.  A secure-store call or the *)
(* connection to the backend may fail, at most MaxFaults times in a run.    *)
(***************************************************************************)
EmptyStore == [k \in STORE_KEYS |-> None]

SubmitIdle ==
    [pc |-> "idle", trimmedHandle |-> <<>>, privateKey |-> None,
     run |-> 0, signature |-> <<>>, error |-> "", storeBefore |-> EmptyStore,
     usersBefore |-> <<>>]

NoBackup ==
    [version |-> 0, handle |-> <<>>, privateKey |-> <<>>, publicKey |-> <<>>,
     signature |-> <<>>]

RestoreIdle ==
    [pc |-> "idle", backup |-> NoBackup, restoredHandle |-> <<>>,
     error |-> "", storeBefore |-> EmptyStore]

SubmitInProgress ==
    submit.pc \in {"loadPrivate", "loadPublic", "call", "saveSignature",
                   "saveHandle", "onComplete"}

RestoreInProgress ==
    restore.pc \in {"savePrivate", "savePublic", "saveHandle", "saveSignature",
                    "loadHandle"}

MayFail == faults < MaxFaults

\* App.handleSetupComplete once its saveMeshHandle has resolved.
handleSetupComplete(st, ap, handle) ==
    [store |-> setItem(st, MESH_HANDLE, handle),
     app |-> [ap EXCEPT !.meshHandle = handle, !.appState = "ready"]]

\* App's render in state 'ready': publicKey={keyPair?.publicKey || ''}.
MainScreenPublicKey(ap) ==
    IF ap.keyPair = None THEN <<>> ELSE The(ap.keyPair).publicKey

\* handleSubmit's catch block: the alert, then setIsSubmitting(false).
SubmitCatch(error) ==
    /\ submit' = [submit EXCEPT !.pc = "failed", !.error = error]
    /\ screen' = IF Mounted THEN [screen EXCEPT !.isSubmitting = FALSE]
                 ELSE screen

\* Faulty variant, for comparison: Continue and the keyboard submit stay
\* enabled while isSubmitting.
SubmitBegin_NoGuard ==
    /\ Mounted
    /\ LET trimmedHandle == trim(screen.handle)
       IN  /\ trimmedHandle # <<>>
           /\ validateAddressFormat(trimmedHandle) = "valid"
           /\ screen.available # Some(FALSE)
           /\ submit' = [SubmitIdle EXCEPT !.pc = "loadPrivate",
                                           !.trimmedHandle = trimmedHandle,
                                           !.storeBefore = store,
                                           !.usersBefore = users]
    /\ screen' = [screen EXCEPT !.isSubmitting = TRUE]
    /\ UNCHANGED <<backendVars, store, app, checks, restore, faults, bk, va, life, nt, cx>>

\* handleSubmit up to its first await.  The Continue button and the text
\* field's submit key are both unusable while isSubmitting is set; the
\* function's own early returns are its other guards.
SubmitBegin ==
    /\ Mounted
    /\ ~screen.isSubmitting
    /\ LET trimmedHandle == trim(screen.handle)
       IN  /\ trimmedHandle # <<>>
           /\ validateAddressFormat(trimmedHandle) = "valid"
           /\ screen.available # Some(FALSE)
           /\ submit' = [SubmitIdle EXCEPT !.pc = "loadPrivate",
                                           !.trimmedHandle = trimmedHandle,
                                           !.storeBefore = store,
                                           !.usersBefore = users]
    /\ screen' = [screen EXCEPT !.isSubmitting = TRUE]
    /\ UNCHANGED <<backendVars, store, app, checks, restore, faults, bk, va, life, nt, cx>>

\* loadKeyPair's first read.
SubmitLoadPrivate ==
    /\ submit.pc = "loadPrivate"
    /\ submit' = [submit EXCEPT !.pc = "loadPublic",
                                !.privateKey = store[PRIVATE_KEY]]
    /\ UNCHANGED <<backendVars, store, app, screen, checks, restore, faults, bk, va, life, nt, cx>>

\* Faulty variant, for comparison: the request carries the private key in
\* place of the public key.
registerAddressActionArgs_PrivateKey(trimmedHandle, keyPair) ==
    [address |-> trimmedHandle, publicKey |-> keyPair.privateKey]

\* handleSubmit: the arguments of the registerAddressAction call.
registerAddressActionArgs(trimmedHandle, keyPair) ==
    [address |-> trimmedHandle, publicKey |-> keyPair.publicKey]

\* loadKeyPair's second read, the null check, and the call of
\* registerAddressAction with the key just read.
SubmitLoadPublic ==
    /\ submit.pc = "loadPublic"
    /\ IF submit.privateKey = None \/ store[PUBLIC_KEY] = None
       THEN /\ SubmitCatch("No keypair found")
            /\ UNCHANGED runs
       ELSE /\ \E r \in RunIds :
                  /\ runs[r].pc = "idle"
                  /\ \A q \in RunIds : q < r => runs[q].pc # "idle"
                  /\ runs' = [runs EXCEPT ![r] =
                         LET keyPair ==
                                 [privateKey |-> The(submit.privateKey),
                                  publicKey |-> The(store[PUBLIC_KEY])]
                             args == registerAddressActionArgs(
                                         submit.trimmedHandle, keyPair)
                         IN  ActionBegin(args.address, args.publicKey)]
                  /\ submit' = [submit EXCEPT !.pc = "call", !.run = r]
            /\ UNCHANGED screen
    /\ UNCHANGED <<users, store, app, checks, restore, faults, bk, va, life, nt, cx>>

\* The action's result reaches the device: { signature } or the error thrown.
SubmitResolve ==
    /\ submit.pc = "call"
    /\ \/ /\ runs[submit.run].pc = "done"
          /\ submit' = [submit EXCEPT !.pc = "saveSignature",
                            !.signature = The(runs[submit.run].signature)]
          /\ UNCHANGED screen
       \/ /\ runs[submit.run].pc = "failed"
          /\ SubmitCatch(runs[submit.run].error)
    /\ UNCHANGED <<backendVars, store, app, checks, restore, faults, bk, va, life, nt, cx>>

\* The connection drops while the action is running: the call rejects on
\* the device, the action goes on in the backend.
SubmitLost ==
    /\ submit.pc = "call"
    /\ MayFail
    /\ faults' = faults + 1
    /\ SubmitCatch("Connection lost")
    /\ UNCHANGED <<backendVars, store, app, checks, restore, bk, va, life, nt, cx>>

\* await saveAuthoritySignature(result.signature)
SubmitSaveSignature ==
    /\ submit.pc = "saveSignature"
    /\ \/ /\ store' = setItem(store, AUTHORITY_SIGNATURE, submit.signature)
          /\ submit' = [submit EXCEPT !.pc = "saveHandle"]
          /\ UNCHANGED <<screen, faults>>
       \/ /\ MayFail
          /\ faults' = faults + 1
          /\ SubmitCatch("setItemAsync failed")
          /\ UNCHANGED store
    /\ UNCHANGED <<backendVars, app, checks, restore, bk, va, life, nt, cx>>

\* await saveMeshHandle(trimmedHandle)
SubmitSaveHandle ==
    /\ submit.pc = "saveHandle"
    /\ \/ /\ store' = setItem(store, MESH_HANDLE, submit.trimmedHandle)
          /\ submit' = [submit EXCEPT !.pc = "onComplete"]
          /\ UNCHANGED <<screen, faults>>
       \/ /\ MayFail
          /\ faults' = faults + 1
          /\ SubmitCatch("setItemAsync failed")
          /\ UNCHANGED store
    /\ UNCHANGED <<backendVars, app, checks, restore, bk, va, life, nt, cx>>

\* await onComplete(trimmedHandle): App.handleSetupComplete; SetupScreen is
\* unmounted when appState becomes 'ready'.
SubmitOnComplete ==
    /\ submit.pc = "onComplete"
    /\ \/ /\ LET after == handleSetupComplete(store, app, submit.trimmedHandle)
             IN  /\ store' = after.store
                 /\ app' = after.app
          /\ submit' = [submit EXCEPT !.pc = "done"]
          /\ checks' = CleanupChecks(checks)
          /\ UNCHANGED <<screen, faults>>
       \/ /\ MayFail
          /\ faults' = faults + 1
          /\ SubmitCatch("setItemAsync failed")
          /\ UNCHANGED <<store, app, checks>>
    /\ UNCHANGED <<backendVars, restore, bk, va, life, nt, cx>>

\* What JSON.parse(base64Decode(code)) yields for the recovery codes a user
\* may paste: one made by generateBackupCode on another installation, one of
\* another version, one with a field missing.
OtherKeyPair ==
    [privateKey |-> Str(PublicKeyHexLength, "2"),
     publicKey |-> Str(PublicKeyHexLength, "b")]

Backups ==
    LET good == [version |-> 1, handle |-> Alice,
                 privateKey |-> OtherKeyPair.privateKey,
                 publicKey |-> OtherKeyPair.publicKey,
                 signature |-> signAttestation(Alice, OtherKeyPair.publicKey)]
    IN  { good,
          [good EXCEPT !.version = 2],
          [good EXCEPT !.handle = <<>>] }

\* The error restoreFromBackup throws before any write, "" when none.
BackupError(backup) ==
    IF backup.version # 1 THEN "Unsupported backup version"
    ELSE IF \/ backup.handle = <<>>
            \/ backup.privateKey = <<>>
            \/ backup.publicKey = <<>>
            \/ backup.signature = <<>>
    THEN "Invalid backup format"
    ELSE ""

\* handleRestoreAccount's catch and finally blocks.
RestoreCatch(error) ==
    /\ restore' = [restore EXCEPT !.pc = "failed", !.error = error]
    /\ screen' = IF Mounted THEN [screen EXCEPT !.isRestoring = FALSE]
                 ELSE screen

\* The user opens the restore dialog, pastes a code and presses Restore:
\* handleRestoreAccount and restoreFromBackup up to the first await.  The
\* button that opens the dialog is enabled whatever isSubmitting is, and the
\* dialog can be cancelled at any time, so the dialog itself is not kept.
RestoreBegin ==
    /\ Mounted
    /\ ~screen.isRestoring
    /\ restore.pc \in {"idle", "failed"}
    /\ \E backup \in Backups :
          LET begun == [RestoreIdle EXCEPT !.backup = backup,
                                           !.storeBefore = store]
          IN  IF BackupError(backup) # ""
              THEN /\ restore' = [begun EXCEPT !.pc = "failed",
                                               !.error = BackupError(backup)]
                   /\ UNCHANGED screen
              ELSE /\ restore' = [begun EXCEPT !.pc = "savePrivate"]
                   /\ screen' = [screen EXCEPT !.isRestoring = TRUE]
    /\ UNCHANGED <<backendVars, store, app, checks, submit, faults, bk, va, life, nt, cx>>

\* What restoreFromBackup's catch rethrows when a write rejects.
RestoreWriteError == "Failed to restore backup: setItemAsync failed"

\* saveKeyPair's first write.
RestoreSavePrivate ==
    /\ restore.pc = "savePrivate"
    /\ \/ /\ store' = setItem(store, PRIVATE_KEY, restore.backup.privateKey)
          /\ restore' = [restore EXCEPT !.pc = "savePublic"]
          /\ UNCHANGED <<screen, faults>>
       \/ /\ MayFail
          /\ faults' = faults + 1
          /\ RestoreCatch(RestoreWriteError)
          /\ UNCHANGED store
    /\ UNCHANGED <<backendVars, app, checks, submit, bk, va, life, nt, cx>>

\* saveKeyPair's second write.
RestoreSavePublic ==
    /\ restore.pc = "savePublic"
    /\ \/ /\ store' = setItem(store, PUBLIC_KEY, restore.backup.publicKey)
          /\ restore' = [restore EXCEPT !.pc = "saveHandle"]
          /\ UNCHANGED <<screen, faults>>
       \/ /\ MayFail
          /\ faults' = faults + 1
          /\ RestoreCatch(RestoreWriteError)
          /\ UNCHANGED store
    /\ UNCHANGED <<backendVars, app, checks, submit, bk, va, life, nt, cx>>

\* await saveMeshHandle(backup.handle)
RestoreSaveHandle ==
    /\ restore.pc = "saveHandle"
    /\ \/ /\ store' = setItem(store, MESH_HANDLE, restore.backup.handle)
          /\ restore' = [restore EXCEPT !.pc = "saveSignature"]
          /\ UNCHANGED <<screen, faults>>
       \/ /\ MayFail
          /\ faults' = faults + 1
          /\ RestoreCatch(RestoreWriteError)
          /\ UNCHANGED store
    /\ UNCHANGED <<backendVars, app, checks, submit, bk, va, life, nt, cx>>

\* await saveAuthoritySignature(backup.signature)
RestoreSaveSignature ==
    /\ restore.pc = "saveSignature"
    /\ \/ /\ store' = setItem(store, AUTHORITY_SIGNATURE, restore.backup.signature)
          /\ restore' = [restore EXCEPT !.pc = "loadHandle"]
          /\ UNCHANGED <<screen, faults>>
       \/ /\ MayFail
          /\ faults' = faults + 1
          /\ RestoreCatch(RestoreWriteError)
          /\ UNCHANGED store
    /\ UNCHANGED <<backendVars, app, checks, submit, bk, va, life, nt, cx>>

\* await loadMeshHandle(), then the 'Account Restored!' alert and the
\* finally block.
RestoreLoadHandle ==
    /\ restore.pc = "loadHandle"
    /\ IF store[MESH_HANDLE] \in {None, Some(<<>>)}
       THEN RestoreCatch("Failed to load restored handle")
       ELSE /\ restore' = [restore EXCEPT !.pc = "alert",
                               !.restoredHandle = The(store[MESH_HANDLE])]
            /\ screen' = IF Mounted THEN [screen EXCEPT !.isRestoring = FALSE]
                         ELSE screen
    /\ UNCHANGED <<backendVars, store, app, checks, submit, faults, bk, va, life, nt, cx>>

\* The user presses Continue on the alert: onComplete(restoredHandle).
RestoreContinue ==
    /\ restore.pc = "alert"
    /\ app.appState # "stopped"
    /\ LET after == handleSetupComplete(store, app, restore.restoredHandle)
       IN  /\ store' = after.store
           /\ app' = after.app
    /\ restore' = [restore EXCEPT !.pc = "done"]
    /\ checks' = CleanupChecks(checks)
    /\ UNCHANGED <<backendVars, screen, submit, faults, bk, va, life, nt, cx>>

\* The app is stopped (killed by the user or the system): every function in
\* progress on the device is abandoned where it is; the secure store and the
\* backend stay.
AppStop ==
    /\ app.appState # "stopped"
    /\ app' = [app EXCEPT !.appState = "stopped"]
    /\ submit' = IF SubmitInProgress THEN [submit EXCEPT !.pc = "stopped"]
                 ELSE submit
    /\ restore' = IF RestoreInProgress \/ restore.pc = "alert"
                  THEN [restore EXCEPT !.pc = "stopped"]
                  ELSE restore
    /\ checks' = [i \in DOMAIN checks |->
                      IF checks[i].state \in {"timer", "inflight"}
                      THEN [checks[i] EXCEPT !.state = "stopped"]
                      ELSE checks[i]]
    /\ UNCHANGED <<backendVars, store, screen, faults, bk, va, life, nt, cx>>

(***************************************************************************)
(* The recovery code: JSON text of the credentials, UTF-8, base64.         *)
(* A JSON value is a string (type "string", its characters in text) or a   *)
(* number (type "number", in number); an object is a sequence of           *)
(* [key, value] members when written and a function from keys when read.   *)
(***************************************************************************)
JsonString(s) == [type |-> "string", text |-> s, number |-> 0]
JsonNumber(n) == [type |-> "number", text |-> <<>>, number |-> n]

RECURSIVE Flatten(_)
Flatten(parts) ==
    IF parts = <<>> THEN <<>>
    ELSE IF Len(parts) = 1 THEN parts[1]
    ELSE LET half == Len(parts) \div 2
         IN  Flatten(SubSeq(parts, 1, half))
                 \o Flatten(SubSeq(parts, half + 1, Len(parts)))

\* Faulty variant, for comparison: the quote and the backslash are written
\* as they are.
JsonEscape_Raw(c) ==
    IF c = "\n" THEN <<"\\", "n">>
    ELSE IF c = "\t" THEN <<"\\", "t">>
    ELSE <<c>>

\* JSON.stringify on one character of a string.
JsonEscape(c) ==
    IF c = "\"" THEN <<"\\", "\"">>
    ELSE IF c = "\\" THEN <<"\\", "\\">>
    ELSE IF c = "\n" THEN <<"\\", "n">>
    ELSE IF c = "\t" THEN <<"\\", "t">>
    ELSE <<c>>

RECURSIVE DecimalDigits(_)
DecimalDigits(n) ==
    IF n < 10 THEN <<Printable[17 + n]>>
    ELSE DecimalDigits(n \div 10) \o <<Printable[17 + (n % 10)]>>

\* JSON.stringify on a string or a number.
jsonStringifyValue(v) ==
    IF v.type = "number" THEN DecimalDigits(v.number)
    ELSE <<"\"">> \o Flatten([i \in DOMAIN v.text |-> JsonEscape(v.text[i])])
            \o <<"\"">>

\* JSON.stringify on an object: the members in insertion order.
jsonStringify(members) ==
    LET member(i) ==
            (IF i = 1 THEN <<>> ELSE <<",">>)
                \o jsonStringifyValue(JsonString(members[i].key))
                \o <<":">> \o jsonStringifyValue(members[i].value)
    IN  <<"{">> \o Flatten([i \in DOMAIN members |-> member(i)]) \o <<"}">>

JsonFailure == [ok |-> FALSE, value |-> <<>>, next |-> 0]

\* The characters of a JSON string literal whose opening quote precedes
\* position i: up to the closing quote, escapes resolved.  A raw control
\* character, an unknown escape or a missing closing quote is a SyntaxError.
RECURSIVE JsonScanString(_, _, _)
JsonScanString(text, i, acc) ==
    IF i > Len(text) THEN JsonFailure
    ELSE IF text[i] = "\"" THEN [ok |-> TRUE, value |-> acc, next |-> i + 1]
    ELSE IF text[i] \in {"\n", "\t"} THEN JsonFailure
    ELSE IF text[i] = "\\" THEN
        IF i + 1 > Len(text) THEN JsonFailure
        ELSE IF text[i + 1] \in {"\"", "\\", "/"}
            THEN JsonScanString(text, i + 2, Append(acc, text[i + 1]))
        ELSE IF text[i + 1] = "n"
            THEN JsonScanString(text, i + 2, Append(acc, "\n"))
        ELSE IF text[i + 1] = "t"
            THEN JsonScanString(text, i + 2, Append(acc, "\t"))
        ELSE JsonFailure
    ELSE JsonScanString(text, i + 1, Append(acc, text[i]))

\* A JSON number made of digits only, starting at position i.
RECURSIVE JsonScanNumber(_, _, _)
JsonScanNumber(text, i, acc) ==
    IF i <= Len(text) /\ text[i] \in Digits
    THEN JsonScanNumber(text, i + 1, 10 * acc + (CharCodeTable[text[i]] - 48))
    ELSE [ok |-> TRUE, value |-> acc, next |-> i]

\* The JSON value starting at position i: a string or a number.
JsonScanValue(text, i) ==
    IF i > Len(text) THEN JsonFailure
    ELSE IF text[i] = "\"" THEN
        LET s == JsonScanString(text, i + 1, <<>>)
        IN  IF s.ok THEN [s EXCEPT !.value = JsonString(s.value)] ELSE JsonFailure
    ELSE IF text[i] \in Digits THEN
        IF text[i] = "0" /\ i < Len(text) /\ text[i + 1] \in Digits
        THEN JsonFailure
        ELSE LET n == JsonScanNumber(text, i, 0)
             IN  [n EXCEPT !.value = JsonNumber(n.value)]
    ELSE JsonFailure

\* The members of an object from position i on; a repeated key keeps the
\* last value.
RECURSIVE JsonScanMembers(_, _, _)
JsonScanMembers(text, i, object) ==
    IF i > Len(text) \/ text[i] # "\"" THEN JsonFailure
    ELSE
        LET key == JsonScanString(text, i + 1, <<>>)
        IN  IF ~key.ok \/ key.next > Len(text) \/ text[key.next] # ":"
            THEN JsonFailure
            ELSE
                LET v == JsonScanValue(text, key.next + 1)
                    extended ==
                        [k \in DOMAIN object \cup {key.value} |->
                            IF k = key.value THEN v.value ELSE object[k]]
                IN  IF ~v.ok \/ v.next > Len(text) THEN JsonFailure
                    ELSE IF text[v.next] = ","
                        THEN JsonScanMembers(text, v.next + 1, extended)
                    ELSE IF text[v.next] = "}" /\ v.next = Len(text)
                        THEN [ok |-> TRUE, value |-> extended, next |-> v.next + 1]
                    ELSE JsonFailure

\* JSON.parse on the texts used here: one object without white space whose
\* values are strings or whole numbers.  ok is FALSE where JSON.parse throws.
jsonParse(text) ==
    IF Len(text) < 2 \/ text[1] # "{" THEN JsonFailure
    ELSE IF text = <<"{", "}">> THEN [ok |-> TRUE, value |-> <<>>, next |-> 3]
    ELSE JsonScanMembers(text, 2, <<>>)

\* String.fromCharCode / TextDecoder on one byte; bytes outside ASCII text
\* decode to a character no credential or JSON syntax contains.
CharFromCode(b) ==
    IF \E c \in Chars : CharCodeTable[c] = b
    THEN CHOOSE c \in Chars : CharCodeTable[c] = b
    ELSE "UNKNOWN"

CodeCharTable == [b \in 0..255 |-> CharFromCode(b)]

utf8Decode(bytes) == [i \in DOMAIN bytes |-> CodeCharTable[bytes[i]]]

\* crypto.ts base64Encode: TextEncoder, String.fromCharCode, btoa.
base64Encode(str) == bufferToBase64(utf8Encode(str))

\* atob: white space is skipped, padding is allowed only as the last one or
\* two characters of a multiple of four, and any other character outside
\* the standard alphabet throws.
atobAccepts(str) ==
    LET data == SelectSeq(str, LAMBDA c : c \notin Whitespace)
        n == Len(data)
        pads == {i \in 1..n : data[i] = "="}
    IN  /\ \A i \in 1..n : data[i] \in Range(Base64Alphabet) \cup {"="}
        /\ pads \subseteq (IF n % 4 = 0 THEN {n - 1, n} ELSE {})
        /\ (n - 1 \in pads) => (n \in pads)
        /\ (n - Cardinality(pads)) % 4 # 1

\* crypto.ts base64Decode: atob, charCodeAt, TextDecoder.  ok is FALSE where
\* atob throws.
base64Decode(str) ==
    IF atobAccepts(str)
    THEN [ok |-> TRUE, value |-> utf8Decode(bufferFromBase64(str))]
    ELSE [ok |-> FALSE, value |-> <<>>]

(***************************************************************************)
(* generateBackupCode and the decoding half of restoreFromBackup, and a    *)
(* recovery code made on one installation and pasted on another.           *)
(***************************************************************************)
KeyVersion == <<"v", "e", "r", "s", "i", "o", "n">>
KeyHandle == <<"h", "a", "n", "d", "l", "e">>
KeyPrivateKey == <<"p", "r", "i", "v", "a", "t", "e", "K", "e", "y">>
KeyPublicKey == <<"p", "u", "b", "l", "i", "c", "K", "e", "y">>
KeySignature == <<"s", "i", "g", "n", "a", "t", "u", "r", "e">>
KeyTimestamp == <<"t", "i", "m", "e", "s", "t", "a", "m", "p">>

\* !value for what SecureStore.getItemAsync returned: null or ''.
Missing(item) == item = None \/ item = Some(<<>>)

\* Faulty variant, for comparison: only the public key is tested.
loadKeyPair_PublicOnly(st) ==
    IF Missing(st[PUBLIC_KEY]) THEN None
    ELSE Some([privateKey |-> IF st[PRIVATE_KEY] = None THEN <<>>
                              ELSE The(st[PRIVATE_KEY]),
               publicKey |-> The(st[PUBLIC_KEY])])

\* crypto.ts loadKeyPair: null unless both keys are there.
loadKeyPair(st) ==
    IF Missing(st[PRIVATE_KEY]) \/ Missing(st[PUBLIC_KEY]) THEN None
    ELSE Some([privateKey |-> The(st[PRIVATE_KEY]),
               publicKey |-> The(st[PUBLIC_KEY])])

\* crypto.ts generateBackupCode on the store st at the time timestamp.
generateBackupCode(st, timestamp) ==
    LET keyPair == loadKeyPair(st)
    IN  IF \/ keyPair = None
           \/ Missing(st[MESH_HANDLE])
           \/ Missing(st[AUTHORITY_SIGNATURE])
        THEN [ok |-> FALSE, code |-> <<>>,
              error |-> "Missing credentials - cannot generate backup"]
        ELSE
            LET backup ==
                    <<[key |-> KeyVersion, value |-> JsonNumber(1)],
                      [key |-> KeyHandle,
                       value |-> JsonString(The(st[MESH_HANDLE]))],
                      [key |-> KeyPrivateKey,
                       value |-> JsonString(The(keyPair).privateKey)],
                      [key |-> KeyPublicKey,
                       value |-> JsonString(The(keyPair).publicKey)],
                      [key |-> KeySignature,
                       value |-> JsonString(The(st[AUTHORITY_SIGNATURE]))],
                      [key |-> KeyTimestamp, value |-> JsonString(timestamp)]>>
            IN  [ok |-> TRUE, code |-> base64Encode(jsonStringify(backup)),
                 error |-> ""]

\* backup.version !== 1
VersionIsNot1(object) ==
    \/ KeyVersion \notin DOMAIN object
    \/ object[KeyVersion].type # "number"
    \/ object[KeyVersion].number # 1

\* !backup.field: the member is absent, '' or 0.
FieldMissing(object, key) ==
    \/ key \notin DOMAIN object
    \/ object[key].type = "string" /\ object[key].text = <<>>
    \/ object[key].type = "number" /\ object[key].number = 0

\* The value setItemAsync is given for a member that is a string.
FieldText(object, key) ==
    IF key \in DOMAIN object /\ object[key].type = "string"
    THEN object[key].text ELSE <<>>

\* Faulty variant, for comparison: the four members are tested before the
\* version.
DecodeBackup_FieldsFirst(backupCode) ==
    LET json == base64Decode(backupCode)
        parsed == IF json.ok THEN jsonParse(json.value) ELSE JsonFailure
        object == parsed.value
    IN  IF ~json.ok THEN
            [error |-> "Failed to restore backup: atob threw", backup |-> NoBackup]
        ELSE IF ~parsed.ok THEN
            [error |-> "Failed to restore backup: JSON.parse threw",
             backup |-> NoBackup]
        ELSE IF \/ FieldMissing(object, KeyHandle)
                \/ FieldMissing(object, KeyPrivateKey)
                \/ FieldMissing(object, KeyPublicKey)
                \/ FieldMissing(object, KeySignature)
        THEN
            [error |-> "Failed to restore backup: Invalid backup format",
             backup |-> NoBackup]
        ELSE IF VersionIsNot1(object) THEN
            [error |-> "Failed to restore backup: Unsupported backup version",
             backup |-> NoBackup]
        ELSE
            [error |-> "",
             backup |-> [version |-> 1,
                         handle |-> FieldText(object, KeyHandle),
                         privateKey |-> FieldText(object, KeyPrivateKey),
                         publicKey |-> FieldText(object, KeyPublicKey),
                         signature |-> FieldText(object, KeySignature)]]

\* restoreFromBackup up to its first write: the error it throws, "" when it
\* goes on to write the four members of backup.
DecodeBackup(backupCode) ==
    LET json == base64Decode(backupCode)
        parsed == IF json.ok THEN jsonParse(json.value) ELSE JsonFailure
        object == parsed.value
    IN  IF ~json.ok THEN
            [error |-> "Failed to restore backup: atob threw", backup |-> NoBackup]
        ELSE IF ~parsed.ok THEN
            [error |-> "Failed to restore backup: JSON.parse threw",
             backup |-> NoBackup]
        ELSE IF VersionIsNot1(object) THEN
            [error |-> "Failed to restore backup: Unsupported backup version",
             backup |-> NoBackup]
        ELSE IF \/ FieldMissing(object, KeyHandle)
                \/ FieldMissing(object, KeyPrivateKey)
                \/ FieldMissing(object, KeyPublicKey)
                \/ FieldMissing(object, KeySignature)
        THEN
            [error |-> "Failed to restore backup: Invalid backup format",
             backup |-> NoBackup]
        ELSE
            [error |-> "",
             backup |-> [version |-> 1,
                         handle |-> FieldText(object, KeyHandle),
                         privateKey |-> FieldText(object, KeyPrivateKey),
                         publicKey |-> FieldText(object, KeyPublicKey),
                         signature |-> FieldText(object, KeySignature)]]

BkIdle ==
    [pc |-> "idle", code |-> <<>>, origin |-> EmptyStore, pasted |-> <<>>,
     storeAtPaste |-> EmptyStore, error |-> ""]

\* Short credential texts: with a quote, a backslash, spaces, a newline,
\* capitals and the characters of base64 and of a timestamp.
BkHandles ==
    { <<"a", "l">>,
      <<"a", "\"", "b">>,
      <<"\\", "n">>,
      <<" ", "A", " ">>,
      <<"a", "\n", "}">> }

BkKeyPairs ==
    { [privateKey |-> <<"1", "f">>, publicKey |-> <<"a", "0">>],
      [privateKey |-> <<"{", "}">>, publicKey |-> <<",", ":">>] }

BkSignatures ==
    { <<"A", "+", "/", "=">>,
      <<"\"">> }

BkTimestamps == { <<"2", "0", "2", "5", "-", "0", "1", "T", "0", ":", "0", "Z">> }

BkStore(handle, keyPair, signature) ==
    [k \in STORE_KEYS |->
        IF k = PRIVATE_KEY THEN Some(keyPair.privateKey)
        ELSE IF k = PUBLIC_KEY THEN Some(keyPair.publicKey)
        ELSE IF k = MESH_HANDLE THEN Some(handle)
        ELSE IF k = AUTHORITY_SIGNATURE THEN Some(signature)
        ELSE None]

\* The stores a code is restored onto: empty, a fresh installation with its
\* own key pair, and an installation with other credentials.
BkTargets ==
    { EmptyStore,
      StoreAfterFirstLaunch,
      BkStore(Bob, OtherKeyPair, <<"Z", "g", "=", "=">>) }

\* Recovery codes not made by generateBackupCode.
BkObject(version, handle, privateKey, publicKey, signature) ==
    <<[key |-> KeyVersion, value |-> version],
      [key |-> KeyHandle, value |-> JsonString(handle)],
      [key |-> KeyPrivateKey, value |-> JsonString(privateKey)],
      [key |-> KeyPublicKey, value |-> JsonString(publicKey)],
      [key |-> KeySignature, value |-> JsonString(signature)]>>

BkWithout(members, key) == SelectSeq(members, LAMBDA m : m.key # key)

BkCraftedObjects ==
    LET h == <<"a", "l">>
        d == <<"1", "f">>
        p == <<"a", "0">>
        s == <<"Z", "g", "=", "=">>
        good == BkObject(JsonNumber(1), h, d, p, s)
    IN  { good,
          BkObject(JsonNumber(2), h, d, p, s),
          BkObject(JsonNumber(0), h, d, p, s),
          BkObject(JsonString(<<"1">>), h, d, p, s),
          BkObject(JsonNumber(2), <<>>, d, p, s),
          BkWithout(good, KeyVersion),
          BkWithout(good, KeyHandle),
          BkWithout(good, KeyPrivateKey),
          BkWithout(good, KeyPublicKey),
          BkWithout(good, KeySignature),
          BkObject(JsonNumber(1), <<>>, d, p, s),
          BkObject(JsonNumber(1), h, d, p, <<>>),
          <<>> }

BkCraftedCodes ==
    {base64Encode(jsonStringify(object)) : object \in BkCraftedObjects}
        \cup { <<"n", "o", "t", " ", "b", "a", "s", "e", "6", "4", "!">>,
               base64Encode(<<"n", "o", "t", " ", "j", "s", "o", "n">>) }

\* Every text pasted into the restore dialog, and DecodeBackup tabulated on
\* them.
BkPastedTexts ==
    BkCraftedCodes \cup
        { generateBackupCode(BkStore(handle, keyPair, signature), timestamp).code :
              handle \in BkHandles, keyPair \in BkKeyPairs,
              signature \in BkSignatures, timestamp \in BkTimestamps }

DecodeBackupTable == [text \in BkPastedTexts |-> DecodeBackup(trim(text))]

\* BackupScreen.generateBackup: the code for the credentials in the store.
BkGenerate ==
    /\ bk.pc = "idle"
    /\ app.appState = "ready"
    /\ \E timestamp \in BkTimestamps :
          LET made == generateBackupCode(store, timestamp)
          IN  bk' = [bk EXCEPT !.pc = IF made.ok THEN "generated" ELSE "failed",
                               !.code = made.code,
                               !.origin = store,
                               !.error = made.error]
    /\ UNCHANGED <<backendVars, store, app, screen, checks, submit, restore,
                   faults, va, life, nt, cx>>

\* The user takes the code to an installation that shows SetupScreen.
BkCarry ==
    /\ bk.pc = "generated"
    /\ \E target \in BkTargets :
          /\ store' = target
          /\ app' = [appState |-> "setup", meshHandle |-> <<>>,
                     keyPair |-> loadKeyPair(target)]
    /\ bk' = [bk EXCEPT !.pc = "carried"]
    /\ UNCHANGED <<backendVars, screen, checks, submit, restore, faults, va,
                   life, nt, cx>>

\* handleRestoreAccount with the pasted text, and restoreFromBackup up to its
\* first write.
BkPaste ==
    /\ bk.pc = "carried"
    /\ Mounted
    /\ ~screen.isRestoring
    /\ restore.pc \in {"idle", "failed"}
    /\ \E text \in {bk.code} \cup BkCraftedCodes :
          LET restoreCode == trim(text)
              decoded == DecodeBackupTable[text]
              begun == [RestoreIdle EXCEPT !.backup = decoded.backup,
                                           !.storeBefore = store]
          IN  /\ restoreCode # <<>>
              /\ bk' = [bk EXCEPT !.pasted = text, !.storeAtPaste = store]
              /\ IF decoded.error # ""
                 THEN /\ restore' = [begun EXCEPT !.pc = "failed",
                                                  !.error = decoded.error]
                      /\ UNCHANGED screen
                 ELSE /\ restore' = [begun EXCEPT !.pc = "savePrivate"]
                      /\ screen' = [screen EXCEPT !.isRestoring = TRUE]
    /\ UNCHANGED <<backendVars, store, app, checks, submit, faults, va, life, nt, cx>>

(***************************************************************************)
(* The life of an installation: App.initializeApp on every launch, the     *)
(* development reset (resetAllData, then initializeApp), deleteAllKeys,    *)
(* and the writes of the other secure-store keys.                          *)
(***************************************************************************)
MaxLaunches == 2
MaxResets == 1
MaxKeyPairs == 2

\* generateKeyPair: the n-th key pair drawn on this device.  Random keys do
\* not repeat and do not equal a key of another installation.
generateKeyPair(n) ==
    [privateKey |-> Str(PublicKeyHexLength, HexDigits[2 * n]),
     publicKey |-> Str(PublicKeyHexLength, HexDigits[9 + 2 * n])]

\* SecureStore.deleteItemAsync(key) when it resolves.
deleteItem(st, key) == [st EXCEPT ![key] = None]

\* Faulty variant, for comparison: deleteAllKeys deletes the handle as well.
DeleteAllKeysOrder_WithHandle ==
    <<PRIVATE_KEY, PUBLIC_KEY, AUTHORITY_SIGNATURE, MESH_HANDLE>>

\* The keys deleteAllKeys and resetAllData delete, in their order.
DeleteAllKeysOrder == <<PRIVATE_KEY, PUBLIC_KEY, AUTHORITY_SIGNATURE>>
ResetAllDataOrder ==
    <<PRIVATE_KEY, PUBLIC_KEY, AUTHORITY_SIGNATURE, MESH_HANDLE>>

\* The first launch of a fresh installation, initializeApp about to run.
AppLoading == [appState |-> "loading", meshHandle |-> <<>>, keyPair |-> None]

LifeFirstLaunch ==
    [pc |-> "hasKeyPair", step |-> 0, launches |-> 1, resets |-> 0,
     generated |-> 0, newKeyPair |-> None, storeBefore |-> None,
     generateFailed |-> FALSE]

\* Faulty variant, for comparison: initializeApp draws a key pair on every
\* launch.
initializeAppGenerates_Always(hasKeys) == TRUE

\* initializeApp: if (!hasKeys)
initializeAppGenerates(hasKeys) == ~hasKeys

\* Faulty variant, for comparison: a failure of generateKeyPair is caught
\* around that call alone and initializeApp goes on to loadMeshHandle.
AfterGenerateKeyPairThrows_GoesOn == "loadHandle"

\* initializeApp: generateKeyPair() rejects (getRandomBytesAsync failed);
\* the catch around the whole body logs the error and initializeApp returns.
AfterGenerateKeyPairThrows == "generateFailed"

\* initializeApp: hasKeyPair(), then generateKeyPair() or loadKeyPair().
InitHasKeyPair ==
    /\ life.pc = "hasKeyPair"
    /\ LET hasKeys == loadKeyPair(store) # None
       IN  IF initializeAppGenerates(hasKeys)
           THEN /\ life.generated < MaxKeyPairs
                /\ \/ /\ life' = [life EXCEPT
                             !.pc = "savePrivate",
                             !.generated = life.generated + 1,
                             !.newKeyPair =
                                 Some(generateKeyPair(life.generated + 1)),
                             !.storeBefore = None]
                      /\ UNCHANGED faults
                   \/ /\ MayFail
                      /\ faults' = faults + 1
                      /\ life' = [life EXCEPT
                             !.pc = AfterGenerateKeyPairThrows,
                             !.generateFailed = TRUE,
                             !.storeBefore = None]
                /\ UNCHANGED app
           ELSE /\ life' = [life EXCEPT !.pc = "loadHandle",
                                        !.storeBefore = None]
                /\ app' = [app EXCEPT !.keyPair = loadKeyPair(store)]
                /\ UNCHANGED faults
    /\ UNCHANGED <<backendVars, store, screen, checks, submit, restore, bk, va,
                   nt, cx>>

\* initializeApp: saveKeyPair's first write; a rejection goes to the catch,
\* which logs it.
InitSavePrivate ==
    /\ life.pc = "savePrivate"
    /\ \/ /\ store' = setItem(store, PRIVATE_KEY, The(life.newKeyPair).privateKey)
          /\ life' = [life EXCEPT !.pc = "savePublic"]
          /\ UNCHANGED faults
       \/ /\ MayFail
          /\ faults' = faults + 1
          /\ life' = [life EXCEPT !.pc = "initFailed"]
          /\ UNCHANGED store
    /\ UNCHANGED <<backendVars, app, screen, checks, submit, restore, bk, va, nt, cx>>

\* initializeApp: saveKeyPair's second write, then setKeyPair(newKeyPair).
InitSavePublic ==
    /\ life.pc = "savePublic"
    /\ \/ /\ store' = setItem(store, PUBLIC_KEY, The(life.newKeyPair).publicKey)
          /\ life' = [life EXCEPT !.pc = "loadHandle"]
          /\ app' = [app EXCEPT !.keyPair = life.newKeyPair]
          /\ UNCHANGED faults
       \/ /\ MayFail
          /\ faults' = faults + 1
          /\ life' = [life EXCEPT !.pc = "initFailed"]
          /\ UNCHANGED <<store, app>>
    /\ UNCHANGED <<backendVars, screen, checks, submit, restore, bk, va, nt, cx>>

\* initializeApp: loadMeshHandle(), then 'setup' or 'ready'.  SetupScreen
\* mounts with its initial state.
InitLoadHandle ==
    /\ life.pc = "loadHandle"
    /\ IF Missing(store[MESH_HANDLE])
       THEN /\ app' = [app EXCEPT !.appState = "setup"]
            /\ screen' = ScreenInitial
            /\ checks' = <<>>
            /\ submit' = SubmitIdle
            /\ restore' = RestoreIdle
       ELSE /\ app' = [app EXCEPT !.appState = "ready",
                                  !.meshHandle = The(store[MESH_HANDLE])]
            /\ UNCHANGED <<screen, checks, submit, restore>>
    /\ life' = [life EXCEPT !.pc = "running"]
    /\ UNCHANGED <<backendVars, store, faults, bk, va, nt, cx>>

\* The app is closed by the user or killed by the system, at rest or between
\* two secure-store operations of a function in progress, which is abandoned
\* where it is; the secure store stays.
AppClose ==
    /\ app.appState # "stopped"
    /\ ~SubmitInProgress
    /\ app' = [app EXCEPT !.appState = "stopped"]
    /\ life' = [life EXCEPT !.pc = "off"]
    /\ restore' = IF RestoreInProgress \/ restore.pc = "alert"
                  THEN [restore EXCEPT !.pc = "stopped"]
                  ELSE restore
    /\ UNCHANGED <<backendVars, store, screen, checks, submit, faults, bk, va,
                   nt, cx>>

\* The user starts the app again: the component state is new, the secure
\* store is as it was left.
AppLaunch ==
    /\ app.appState = "stopped"
    /\ life.launches < MaxLaunches
    /\ app' = AppLoading
    /\ screen' = ScreenInitial
    /\ checks' = <<>>
    /\ submit' = SubmitIdle
    /\ restore' = RestoreIdle
    /\ life' = [life EXCEPT !.pc = "hasKeyPair", !.step = 0,
                            !.launches = life.launches + 1,
                            !.newKeyPair = None, !.storeBefore = None,
                            !.generateFailed = FALSE]
    /\ UNCHANGED <<backendVars, store, faults, bk, va, nt, cx>>

\* devResetOnboarding: the user confirms the reset on MainScreen.
ResetBegin ==
    /\ app.appState = "ready"
    /\ life.pc = "running"
    /\ life.resets < MaxResets
    /\ life' = [life EXCEPT !.pc = "resetAllData", !.step = 1,
                            !.resets = life.resets + 1,
                            !.storeBefore = Some(store)]
    /\ UNCHANGED <<backendVars, store, app, screen, checks, submit, restore,
                   faults, bk, va, nt, cx>>

\* resetAllData: its next deleteItemAsync; after the last one
\* devResetOnboarding calls initializeApp.  A rejection leaves onPress.
ResetAllDataStep ==
    /\ life.pc = "resetAllData"
    /\ \/ /\ store' = deleteItem(store, ResetAllDataOrder[life.step])
          /\ life' = IF life.step = Len(ResetAllDataOrder)
                     THEN [life EXCEPT !.pc = "hasKeyPair", !.step = 0]
                     ELSE [life EXCEPT !.step = life.step + 1]
          /\ UNCHANGED faults
       \/ /\ MayFail
          /\ faults' = faults + 1
          /\ life' = [life EXCEPT !.pc = "resetFailed"]
          /\ UNCHANGED store
    /\ UNCHANGED <<backendVars, app, screen, checks, submit, restore, bk, va, nt, cx>>

\* deleteAllKeys is called (key rotation) while the app shows MainScreen.
DeleteAllKeysBegin ==
    /\ app.appState = "ready"
    /\ life.pc = "running"
    /\ life.resets < MaxResets
    /\ life' = [life EXCEPT !.pc = "deleteAllKeys", !.step = 1,
                            !.resets = life.resets + 1,
                            !.storeBefore = Some(store)]
    /\ UNCHANGED <<backendVars, store, app, screen, checks, submit, restore,
                   faults, bk, va, nt, cx>>

\* deleteAllKeys: its next deleteItemAsync.
DeleteAllKeysStep ==
    /\ life.pc = "deleteAllKeys"
    /\ \/ /\ store' = deleteItem(store, DeleteAllKeysOrder[life.step])
          /\ life' = IF life.step = Len(DeleteAllKeysOrder)
                     THEN [life EXCEPT !.pc = "deleted", !.step = 0]
                     ELSE [life EXCEPT !.step = life.step + 1]
          /\ UNCHANGED faults
       \/ /\ MayFail
          /\ faults' = faults + 1
          /\ life' = [life EXCEPT !.pc = "deleteFailed"]
          /\ UNCHANGED store
    /\ UNCHANGED <<backendVars, app, screen, checks, submit, restore, bk, va, nt, cx>>

\* BackupScreen.handleSaveQRCode or handleCopyQRCode: the date of the backup
\* is written.
BkSaveDate ==
    /\ app.appState = "ready"
    /\ life.pc = "running"
    /\ bk.pc = "generated"
    /\ store[LAST_BACKUP_SAVED] = None
    /\ \E timestamp \in BkTimestamps :
          store' = setItem(store, LAST_BACKUP_SAVED, timestamp)
    /\ UNCHANGED <<backendVars, app, screen, checks, submit, restore, faults,
                   bk, va, life, nt, cx>>

\* tasks.ts saveNotifications: the list of notifications is written.
SaveNotifications ==
    /\ app.appState = "ready"
    /\ life.pc = "running"
    /\ store[NOTIFICATIONS] = None
    /\ store' = setItem(store, NOTIFICATIONS, <<"[", "]">>)
    /\ UNCHANGED <<backendVars, app, screen, checks, submit, restore, faults,
                   bk, va, life, nt, cx>>

(***************************************************************************)
(* tasks.ts: the list of notifications under the secure-store key          *)
(* 'notifications'.  syncTasksAsNotifications (started by MainScreen every *)
(* second), markNotificationAsViewed and markAllNotificationsAsViewed each *)
(* read the list, await, and write a list back.                            *)
(***************************************************************************)
MaxCalls == 4

TaskBackupAccount ==
    <<"b", "a", "c", "k", "u", "p", "_", "a", "c", "c", "o", "u", "n",
      "t">>

BackupNotificationTitle ==
    <<"B", "a", "c", "k", "u", "p", " ", "Y", "o", "u", "r", " ", "I",
      "d", "e", "n", "t", "i", "t", "y">>

getTaskNotificationTitle(taskId) ==
    IF taskId = TaskBackupAccount THEN BackupNotificationTitle
    ELSE <<"C", "o", "m", "p", "l", "e", "t", "e", " ", "T", "a", "s", "k">>

\* The message and the creation time of a notification are left out: no
\* function here looks at them.
createTaskNotification(taskId) ==
    [id |-> <<"t", "a", "s", "k", "_">> \o taskId,
     title |-> getTaskNotificationTitle(taskId),
     isViewed |-> FALSE,
     actionType |-> IF taskId = TaskBackupAccount
                    THEN <<"b", "a", "c", "k", "u", "p">>
                    ELSE <<"n", "o", "n", "e">>]

\* JSON.stringify of a list of notifications.
NotificationJson(n) ==
    Flatten(<< <<"{", "\"", "i", "d", "\"", ":">>,
               jsonStringifyValue(JsonString(n.id)),
               <<",", "\"", "t", "i", "t", "l", "e", "\"", ":">>,
               jsonStringifyValue(JsonString(n.title)),
               <<",", "\"", "i", "s", "V", "i", "e", "w", "e", "d", "\"", ":">>,
               IF n.isViewed THEN <<"t", "r", "u", "e">>
               ELSE <<"f", "a", "l", "s", "e">>,
               <<",", "\"", "a", "c", "t", "i", "o", "n", "T", "y", "p", "e",
      "\"", ":">>,
               jsonStringifyValue(JsonString(n.actionType)),
               <<"}">> >>)

RECURSIVE NotificationsJsonFrom(_, _)
NotificationsJsonFrom(list, i) ==
    IF i > Len(list) THEN <<>>
    ELSE (IF i > 1 THEN <<",">> ELSE <<>>) \o NotificationJson(list[i])
             \o NotificationsJsonFrom(list, i + 1)

notificationsJson(list) == <<"[">> \o NotificationsJsonFrom(list, 1) \o <<"]">>

\* The lists tasks.ts can write: none or one notification per task, viewed
\* or not; and their JSON texts.
NotificationLists ==
    {<<>>} \cup {<<[createTaskNotification(TaskBackupAccount)
                       EXCEPT !.isViewed = viewed]>> : viewed \in BOOLEAN}

NotificationsJsonTable == [list \in NotificationLists |-> notificationsJson(list)]

\* getNotifications: JSON.parse of the stored text, [] when there is none.
getNotifications(st) ==
    IF Missing(st[NOTIFICATIONS]) THEN <<>>
    ELSE CHOOSE list \in NotificationLists :
             NotificationsJsonTable[list] = The(st[NOTIFICATIONS])

\* saveNotifications when its setItemAsync resolves.
saveNotifications(st, list) == setItem(st, NOTIFICATIONS, notificationsJson(list))

\* getPendingTasks: the ids of the tasks not completed; the backup task is
\* completed when lastBackupSaved holds a date.
getPendingTasks(st) ==
    IF Missing(st[LAST_BACKUP_SAVED]) THEN <<TaskBackupAccount>> ELSE <<>>

\* title.includes(part)
includes(text, part) ==
    \E i \in 1..(Len(text) - Len(part) + 1) :
        SubSeq(text, i, i + Len(part) - 1) = part

RECURSIVE AddTaskNotifications(_, _, _)
AddTaskNotifications(list, pendingTasks, i) ==
    IF i > Len(pendingTasks) THEN list
    ELSE LET title == getTaskNotificationTitle(pendingTasks[i])
             exists == \E j \in DOMAIN list : list[j].title = title
         IN  AddTaskNotifications(
                 IF exists THEN list
                 ELSE Append(list, createTaskNotification(pendingTasks[i])),
                 pendingTasks, i + 1)

\* syncTasksAsNotifications: the list it saves, from the list and the
\* pending tasks it read.
syncTasksAsNotifications(notifications, pendingTasks) ==
    LET filteredNotifications ==
            SelectSeq(notifications,
                LAMBDA n : \/ ~includes(n.title, BackupNotificationTitle)
                           \/ \E i \in DOMAIN pendingTasks :
                                  pendingTasks[i] = TaskBackupAccount)
    IN  AddTaskNotifications(filteredNotifications, pendingTasks, 1)

\* markNotificationAsViewed: the list it saves, from the list it read.
markNotificationAsViewed(notifications, notificationId) ==
    [i \in DOMAIN notifications |->
        IF notifications[i].id = notificationId
        THEN [notifications[i] EXCEPT !.isViewed = TRUE]
        ELSE notifications[i]]

\* markAllNotificationsAsViewed: the list it saves, from the list it read.
markAllNotificationsAsViewed(notifications) ==
    [i \in DOMAIN notifications |-> [notifications[i] EXCEPT !.isViewed = TRUE]]

\* The three callers on MainScreen: the interval's updateTaskCounts, a press
\* on a notification of the list, a press on the bell.
NtProcs == {"sync", "markOne", "markAll"}

NtIdleProc ==
    [pc |-> "idle", notifications |-> <<>>, pendingTasks |-> <<>>, readAt |-> 0]

\* calls: the calls started; writes: the saveNotifications completed.
NtIdle == [procs |-> [p \in NtProcs |-> NtIdleProc], calls |-> 0, writes |-> 0]

\* The list the call p saves.
NtUpdated(p) ==
    LET proc == nt.procs[p]
    IN  IF p = "sync"
        THEN syncTasksAsNotifications(proc.notifications, proc.pendingTasks)
        ELSE IF p = "markOne"
        THEN markNotificationAsViewed(proc.notifications,
                 createTaskNotification(TaskBackupAccount).id)
        ELSE markAllNotificationsAsViewed(proc.notifications)

\* A call starts and its getNotifications() resolves.
NtRead(p) ==
    /\ app.appState = "ready"
    /\ nt.procs[p].pc = "idle"
    /\ nt.calls < MaxCalls
    /\ nt' = [nt EXCEPT !.calls = nt.calls + 1,
                        !.procs[p].pc = IF p = "sync" THEN "pending" ELSE "write",
                        !.procs[p].notifications = getNotifications(store),
                        !.procs[p].pendingTasks = <<>>,
                        !.procs[p].readAt = nt.writes]
    /\ UNCHANGED <<backendVars, store, app, screen, checks, submit, restore,
                   faults, bk, va, life, cx>>

\* syncTasksAsNotifications: its getPendingTasks() resolves.
NtPending ==
    /\ nt.procs["sync"].pc = "pending"
    /\ nt' = [nt EXCEPT !.procs["sync"].pc = "write",
                        !.procs["sync"].pendingTasks = getPendingTasks(store)]
    /\ UNCHANGED <<backendVars, store, app, screen, checks, submit, restore,
                   faults, bk, va, life, cx>>

\* The saveNotifications of call p resolves.
NtWrite(p) ==
    /\ nt.procs[p].pc = "write"
    /\ store' = saveNotifications(store, NtUpdated(p))
    /\ nt' = [nt EXCEPT !.procs[p].pc = "idle", !.writes = nt.writes + 1]
    /\ UNCHANGED <<backendVars, app, screen, checks, submit, restore, faults,
                   bk, va, life, cx>>

(***************************************************************************)
(* One text given to the backend's validateAddress, to the client's        *)
(* validateAddressFormat and to the isAddressAvailable query.              *)
(***************************************************************************)
VaIdle ==
    [pc |-> "idle", input |-> <<>>, backend |-> "", client |-> "",
     backendAgain |-> "", clientAgain |-> "",
     backendLower |-> "", clientLower |-> "",
     result |-> [available |-> FALSE, reason |-> ""], usersBefore |-> <<>>]

VaAlphabet == {"a", "A", "1", ".", " ", "_"}

\* Every text of at most two characters of VaAlphabet.
VaShortTexts ==
    {<<>>} \cup {<<c>> : c \in VaAlphabet}
           \cup {<<c, d>> : c \in VaAlphabet, d \in VaAlphabet}

VaNamedTexts ==
    { <<"h", "e", "l", "p", "1", "2", "3">>, <<"A", "b", "c">>, <<"1", "a", "b", "c">>, <<"a", "b">>, <<" ", "a", "b", " ">>,
      <<"a", "b", "c", "d", "e", "f", "g", "h", "i", "j", "k", "l", "m", "n", "o", "p">>, <<"a", "b", "c", "d", "e", "f", "g", "h", "i", "j", "k", "l", "m", "n", "o", "p", "q">>,
      <<"A", "B", "C", "D", "E", "F", "G", "H", "I", "J", "K", "L", "M", "N", "O", "P", "Q">>, <<"t", "e", "s", "t">>, <<"t", "e", "s">>, <<"9", "1", "1">>,
      <<"x", "9", "1", "1">>, <<" ", "h", "e", "l", "p">>, <<"H", "e", "l", "p", "1">>, <<"m", "a", "i", "l", ".", "a">>, <<"r", "o", "o">>,
      <<"r", "o", "o", "t">>, <<"a", " ", "b">>, <<"a", "b", "\n">>, <<"\t", "1">>,
      <<" ", " ">>, <<" ", "A", " ">>, <<"s", "y", "s", "t", "e", "m", ".", "a", "d", "m", "i", "n">>, <<"a", ".", "b", ".", "c">> }

VaInputs == VaShortTexts \cup VaNamedTexts

\* Users tables, each made by registerAddressMutation calls.
VaRegister(table, address) ==
    registerAddressMutation(table, address, <<"a", "b">>, <<"c", "2">>).table

VaTables ==
    { <<>>,
      VaRegister(<<>>, <<"a", "a">>),
      VaRegister(VaRegister(<<>>, <<"a", "a">>), <<"a", "1">>),
      VaRegister(VaRegister(<<>>, <<"a", "b">>), <<" ", "a">>) }

\* The same text is given to validateAddress and to validateAddressFormat,
\* each is called a second time with it, and then with the text lowercased.
VaValidate ==
    /\ va.pc = "idle"
    /\ \E input \in VaInputs :
          va' = [va EXCEPT !.pc = "validated",
                           !.input = input,
                           !.backend = validateAddress(input),
                           !.client = validateAddressFormat(input),
                           !.backendAgain = validateAddress(input),
                           !.clientAgain = validateAddressFormat(input),
                           !.backendLower = validateAddress(toLowerCase(input)),
                           !.clientLower =
                               validateAddressFormat(toLowerCase(input))]
    /\ UNCHANGED <<backendVars, store, app, screen, checks, submit, restore,
                   faults, bk, life, nt, cx>>

\* The isAddressAvailable query with that text.
VaQuery ==
    /\ va.pc = "validated"
    /\ va' = [va EXCEPT !.pc = "queried",
                        !.result = isAddressAvailable(users, va.input),
                        !.usersBefore = users]
    /\ UNCHANGED <<backendVars, store, app, screen, checks, submit, restore,
                   faults, bk, life, nt, cx>>

(***************************************************************************)
(* Specifications.                                                         *)
(***************************************************************************)
BackendIdleInit ==
    /\ users = <<>>
    /\ runs = [r \in RunIds |-> IdleRun]

\* The device after the first launch on a fresh install: initializeApp has
\* generated and saved a key pair, found no handle and shown SetupScreen.
DeviceIdleInit ==
    /\ store = StoreAfterFirstLaunch
    /\ app = AppAfterFirstLaunch
    /\ screen = ScreenInitial
    /\ checks = <<>>
    /\ submit = SubmitIdle
    /\ restore = RestoreIdle
    /\ faults = 0
    /\ bk = BkIdle
    /\ va = VaIdle
    /\ life = LifeRunning
    /\ nt = NtIdle

InitSetup ==
    /\ BackendIdleInit
    /\ DeviceIdleInit
    /\ cx = CxIdle

NextSetup ==
    \/ TypeHandle
    \/ \E i \in DOMAIN checks : CheckTimerFires(i)
    \/ \E i \in DOMAIN checks : CheckCompletes(i)
    \/ \E i \in DOMAIN checks : CheckFails(i)
    \/ DirectMutation

SpecSetup == InitSetup /\ [][NextSetup]_vars

\* The handles the user has typed before pressing Continue.
SubmitHandles == {Alice, Bob}

\* SetupScreen once the user has typed a handle and its availability check
\* has answered: the state TypeHandle, CheckTimerFires and CheckCompletes
\* lead to from the first launch.
Init ==
    /\ BackendIdleInit
    /\ store = StoreAfterFirstLaunch
    /\ app = AppAfterFirstLaunch
    /\ \E handle \in SubmitHandles :
          /\ screen = [ScreenInitial EXCEPT !.handle = handle,
                                            !.available = Some(TRUE)]
          /\ checks = <<[handle |-> handle, state |-> "done"]>>
    /\ submit = SubmitIdle
    /\ restore = RestoreIdle
    /\ faults = 0
    /\ bk = BkIdle
    /\ va = VaIdle
    /\ life = LifeRunning
    /\ nt = NtIdle
    /\ cx = CxIdle

Next ==
    \/ SubmitBegin
    \/ SubmitLoadPrivate
    \/ SubmitLoadPublic
    \/ SubmitResolve
    \/ SubmitLost
    \/ SubmitSaveSignature
    \/ SubmitSaveHandle
    \/ SubmitOnComplete
    \/ RestoreBegin
    \/ RestoreSavePrivate
    \/ RestoreSavePublic
    \/ RestoreSaveHandle
    \/ RestoreSaveSignature
    \/ RestoreLoadHandle
    \/ RestoreContinue
    \/ AppStop
    \/ \E r \in RunIds : ActionQuery(r)
    \/ \E r \in RunIds : ActionSign(r)
    \/ \E r \in RunIds : ActionMutate(r)

Spec == Init /\ [][Next]_vars

InitBackend ==
    /\ BackendIdleInit
    /\ DeviceIdleInit
    /\ cx = CxIdle

NextBackend ==
    \/ \E r \in RunIds : ActionStart(r)
    \/ \E r \in RunIds : ActionQuery(r)
    \/ \E r \in RunIds : ActionSign(r)
    \/ \E r \in RunIds : ActionMutate(r)
    \/ DirectMutation

SpecBackend == InitBackend /\ [][NextBackend]_vars

NextShaped ==
    \/ ActionStartShaped
    \/ \E r \in RunIds :
          \/ ActionQuery(r)
          \/ ActionSign(r)
          \/ ActionMutate(r)

SpecShaped == InitBackend /\ [][NextShaped]_vars

NextRace ==
    \/ \E r \in RaceRuns : RaceStart(r)
    \/ \E r \in RaceRuns : ActionQuery(r)
    \/ \E r \in RaceRuns : ActionSign(r)
    \/ \E r \in RaceRuns : ActionMutate(r)

SpecRace == InitBackend /\ [][NextRace]_vars

InitCrypto ==
    /\ BackendIdleInit
    /\ DeviceIdleInit
    /\ \E a \in CryptoAddresses, k \in CryptoKeys : cx = CxInput(a, k)

NextCrypto ==
    \/ CxBuildMessages
    \/ CxSign
    \/ CxPresentSame
    \/ CxChangeAddress
    \/ CxChangeKey
    \/ CxFlipByte
    \/ CxResize
    \/ CxRespell
    \/ CxMalform
    \/ CxVerify

SpecCrypto == InitCrypto /\ [][NextCrypto]_vars

\* A fresh installation is launched for the first time.
InitLife ==
    /\ BackendIdleInit
    /\ store = EmptyStore
    /\ app = AppLoading
    /\ screen = ScreenInitial
    /\ checks = <<>>
    /\ submit = SubmitIdle
    /\ restore = RestoreIdle
    /\ faults = 0
    /\ bk = BkIdle
    /\ va = VaIdle
    /\ life = LifeFirstLaunch
    /\ nt = NtIdle
    /\ cx = CxIdle

NextLife ==
    \/ InitHasKeyPair
    \/ InitSavePrivate
    \/ InitSavePublic
    \/ InitLoadHandle
    \/ AppClose
    \/ AppLaunch
    \/ ResetBegin
    \/ ResetAllDataStep
    \/ DeleteAllKeysBegin
    \/ DeleteAllKeysStep
    \/ BkGenerate
    \/ BkSaveDate
    \/ SaveNotifications
    \/ RestoreBegin
    \/ RestoreSavePrivate
    \/ RestoreSavePublic
    \/ RestoreSaveHandle
    \/ RestoreSaveSignature
    \/ RestoreLoadHandle
    \/ RestoreContinue

SpecLife == InitLife /\ [][NextLife]_vars

\* MainScreen of a registered installation, no notification stored yet.
InitNotify ==
    /\ BackendIdleInit
    /\ store = BkStore(Alice, DeviceKeyPair,
                       signAttestation(Alice, DeviceKeyPair.publicKey))
    /\ app = [appState |-> "ready", meshHandle |-> Alice,
              keyPair |-> Some(DeviceKeyPair)]
    /\ screen = ScreenInitial
    /\ checks = <<>>
    /\ submit = SubmitIdle
    /\ restore = RestoreIdle
    /\ faults = 0
    /\ bk = BkIdle
    /\ va = VaIdle
    /\ life = LifeRunning
    /\ nt = NtIdle
    /\ cx = CxIdle

NextNotify ==
    \/ \E p \in NtProcs : NtRead(p)
    \/ NtPending
    \/ \E p \in NtProcs : NtWrite(p)
    \/ BkGenerate
    \/ BkSaveDate

SpecNotify == InitNotify /\ [][NextNotify]_vars

InitValidate ==
    /\ users \in VaTables
    /\ runs = [r \in RunIds |-> IdleRun]
    /\ DeviceIdleInit
    /\ cx = CxIdle

NextValidate ==
    \/ VaValidate
    \/ VaQuery

SpecValidate == InitValidate /\ [][NextValidate]_vars

\* An installation that has completed setup, with the four credentials.
InitBackup ==
    /\ BackendIdleInit
    /\ \E handle \in BkHandles, keyPair \in BkKeyPairs,
          signature \in BkSignatures :
          /\ store = BkStore(handle, keyPair, signature)
          /\ app = [appState |-> "ready", meshHandle |-> handle,
                    keyPair |-> Some(keyPair)]
    /\ screen = ScreenInitial
    /\ checks = <<>>
    /\ submit = SubmitIdle
    /\ restore = RestoreIdle
    /\ faults = 0
    /\ bk = BkIdle
    /\ va = VaIdle
    /\ life = LifeRunning
    /\ nt = NtIdle
    /\ cx = CxIdle

NextBackup ==
    \/ BkGenerate
    \/ BkCarry
    \/ BkPaste
    \/ RestoreSavePrivate
    \/ RestoreSavePublic
    \/ RestoreSaveHandle
    \/ RestoreSaveSignature
    \/ RestoreLoadHandle
    \/ RestoreContinue

SpecBackup == InitBackup /\ [][NextBackup]_vars

(***************************************************************************)
(* Claims about the registration protocol on the backend.                  *)
(***************************************************************************)
RaceFinished == \A r \in RaceRuns : runs[r].pc \in {"done", "failed"}

RaceWellFormed ==
    /\ validateAddress(runs[1].trimmed) = "valid"
    /\ \A r \in RaceRuns : MatchesPublicKeyFormat(runs[r].publicKey)

RaceReturned == {r \in RaceRuns : runs[r].pc = "done" /\ runs[r].signature # None}

RaceTaken ==
    {r \in RaceRuns : runs[r].pc = "failed" /\ runs[r].error = "Address already taken"}

RaceRecords == withIndexByAddress(users, runs[1].trimmed)

RaceOneWinner ==
    /\ Cardinality(RaceReturned) = 1
    /\ Cardinality(RaceTaken) = 1
    /\ Cardinality(RaceRecords) = 1

\* C1 as claimed: once two runs for the same valid address with well-formed
\* public keys have both ended, exactly one has returned a signature, exactly
\* one has failed with 'Address already taken', and the table holds exactly
\* one record for the address.
C1_RaceAlwaysOneWinner == (RaceFinished /\ RaceWellFormed) => RaceOneWinner

\* C1 amended: the same, for the interleavings in which no signing call
\* fails; and in every interleaving at most one run returns a signature and
\* the table holds as many records for the address as runs returned.
C1_RaceOneWinnerUnlessSigningFails ==
    RaceFinished =>
        /\ Cardinality(RaceReturned) <= 1
        /\ Cardinality(RaceRecords) = Cardinality(RaceReturned)
        /\ (RaceWellFormed
              /\ \A r \in RaceRuns : runs[r].error # "KMS signing failed")
           => RaceOneWinner

\* Both runs were told the address is available and both signed; the insert's
\* own lookup decided between them.
C1_Witness ==
    /\ RaceFinished
    /\ RaceWellFormed
    /\ \A r \in RaceRuns : runs[r].signature # None
    /\ RaceOneWinner

UniqueAddresses ==
    \A i, j \in DOMAIN users : users[i].address = users[j].address => i = j

InsertOnlyWhenAbsent ==
    users' # users =>
        /\ Len(users') = Len(users) + 1
        /\ SubSeq(users', 1, Len(users)) = users
        /\ withIndexByAddress(users, users'[Len(users')].address) = {}

\* C2: no two records of the users table have the same address, and every
\* step that changes the table appends one record whose address no record
\* had before the step, whatever availability result preceded it.
C2_UniqueAddress == []UniqueAddresses /\ [][InsertOnlyWhenAbsent]_vars

\* A run that was told the address is available reaches its insert after
\* another insert took the address, and is refused.
C2_Witness ==
    \E r \in RunIds :
        /\ runs[r].pc = "failed"
        /\ runs[r].signature # None
        /\ runs[r].error = "Address already taken"
        /\ withIndexByAddress(users, runs[r].trimmed) # {}

SubmitEnded == submit.pc \in {"failed", "done"}

SubmitComplete ==
    /\ store[MESH_HANDLE] = Some(submit.trimmedHandle)
    /\ \E i \in DOMAIN users :
          /\ users[i].address = submit.trimmedHandle
          /\ store[AUTHORITY_SIGNATURE] = Some(users[i].signature)

SubmitChangedNothing ==
    /\ users = submit.usersBefore
    /\ store = submit.storeBefore

\* C3: when a registration attempt started by handleSubmit has ended (by
\* success, an error alert, a lost response or a failed secure-store write)
\* and no restore has touched the store, either the users table holds the
\* record and the device has stored its signature and the handle, or neither
\* the users table nor the secure store has changed since the attempt began.
C3_SubmitAllOrNothing ==
    (SubmitEnded /\ restore.pc = "idle") =>
        (SubmitComplete \/ SubmitChangedNothing)

RestoreAtRest == restore.pc \in {"failed", "stopped"}

BackupValue(backup, key) ==
    CASE key = PRIVATE_KEY -> Some(backup.privateKey)
      [] key = PUBLIC_KEY -> Some(backup.publicKey)
      [] key = MESH_HANDLE -> Some(backup.handle)
      [] key = AUTHORITY_SIGNATURE -> Some(backup.signature)

RestorePartiallyApplied ==
    \E written, kept \in KEYS :
        /\ store[written] = BackupValue(restore.backup, written)
        /\ store[written] # restore.storeBefore[written]
        /\ store[kept] = restore.storeBefore[kept]
        /\ store[kept] # BackupValue(restore.backup, kept)

\* C4: once restoreFromBackup is no longer running, because a secure-store
\* write failed or the app stopped between two writes, and no registration
\* attempt has touched the store, the secure store does not hold one
\* credential of the backup together with another of the state before the
\* restore.
C4_RestoreAppliedAsUnit ==
    (RestoreAtRest /\ submit.pc = "idle") => ~RestorePartiallyApplied

StaleCheckCompletes(i) ==
    /\ checks[i].state = "inflight"
    /\ checks'[i].state \in {"done", "failed"}
    /\ checks[i].handle # trim(screen.handle)

\* C5: a step in which an availability check issued for an earlier handle
\* value completes, after the handle has changed, leaves available,
\* errorMessage and checking as they were, also when the check's query was
\* already in flight at the time of the change.
C5_StaleCheckSetsNothing ==
    [][\A i \in DOMAIN checks :
          StaleCheckCompletes(i) =>
              /\ screen'.available = screen.available
              /\ screen'.errorMessage = screen.errorMessage
              /\ screen'.checking = screen.checking]_vars

RunRecord(run) ==
    [address |-> run.trimmed, publicKey |-> run.publicKey,
     signature |-> The(run.signature)]

RefusedInsert(r) == runs[r].pc = "mutate" /\ runs'[r].pc = "failed"

\* C6 as claimed, the retry after a conflict: when the insert of a run finds
\* a conflict, a later retry for the same address can still succeed, so the
\* address is available to a new run after the refused insert.
C6_RetryOpenAfterConflict ==
    [][\A r \in RunIds :
          RefusedInsert(r) =>
              isAddressAvailable(users', runs[r].trimmed).available]_vars

C6_Step ==
    \A r \in RunIds :
        \* signing starts only after the query reported the address available
        /\ (runs[r].pc # "sign" /\ runs'[r].pc = "sign") =>
              /\ runs[r].pc = "query"
              /\ isAddressAvailable(users, runs[r].trimmed).available
        \* a failed signing call leaves the table and returns nothing
        /\ (runs[r].pc = "sign" /\ runs'[r].pc = "failed") =>
              /\ users' = users
              /\ runs'[r].signature = None
        \* the insert is attempted only with the signature signing returned
        /\ (runs[r].pc # "mutate" /\ runs'[r].pc = "mutate") =>
              /\ runs[r].pc = "sign"
              /\ runs'[r].signature =
                    Some(signAttestation(runs[r].trimmed, runs[r].publicKey))
              /\ users' = users
        \* a conflict at the insert leaves the table and returns nothing, and
        \* the address is held by another record
        /\ RefusedInsert(r) =>
              /\ users' = users
              /\ runs'[r].error = "Address already taken"
              /\ ~isAddressAvailable(users', runs[r].trimmed).available
        \* an address that is not available never becomes available again
        /\ (/\ runs[r].pc # "idle"
            /\ ~isAddressAvailable(users, runs[r].trimmed).available)
           => ~isAddressAvailable(users', runs[r].trimmed).available
        \* the signature is returned only by the step that inserted the record
        /\ (runs[r].pc # "done" /\ runs'[r].pc = "done") =>
              /\ runs[r].pc = "mutate"
              /\ users' = Append(users, RunRecord(runs[r]))

C6_State ==
    \A r \in RunIds :
        /\ runs[r].pc \in {"sign", "mutate", "done"} =>
              validateAddress(runs[r].trimmed) = "valid"
        /\ runs[r].pc = "done" =>
              \E i \in DOMAIN users : users[i] = RunRecord(runs[r])

\* C6 amended: in every registerAddressAction run, signing starts only for an
\* address the availability query reported valid and free, the insert runs
\* only with the signature signing returned, and the signature is returned
\* only by the insert that stored the record; a failed signing call or a
\* refused insert leaves the table unchanged and returns no signature; after
\* a refused insert the address is taken, and a taken address stays taken.
C6_StepOrder == []C6_State /\ [][C6_Step]_vars

\* A run failed at signing, and a later run for the same address succeeded.
C6_Witness ==
    \E r, q \in RunIds :
        /\ runs[r].pc = "failed"
        /\ runs[r].error = "KMS signing failed"
        /\ runs[q].pc = "done"
        /\ runs[q].trimmed = runs[r].trimmed

(***************************************************************************)
(* Claims about the attestation codec.                                     *)
(***************************************************************************)
DeviceMatchesBackend ==
    /\ store[MESH_HANDLE] # None
    /\ LET records == withIndexByAddress(users, The(store[MESH_HANDLE]))
       IN  /\ Cardinality(records) = 1
           /\ \A i \in records :
                 /\ store[PUBLIC_KEY] = Some(users[i].publicKey)
                 /\ store[AUTHORITY_SIGNATURE] = Some(users[i].signature)

\* C7: whenever a registration attempt has completed successfully on the
\* device, the stored handle is the address of exactly one record of the
\* users table, and the stored public key and authority signature equal that
\* record's publicKey and signature.
C7_DeviceMatchesBackend == submit.pc = "done" => DeviceMatchesBackend

CxSameTriple ==
    /\ cx.address2 = cx.address
    /\ cx.publicKey2 = cx.publicKey
    /\ cx.signature2 = cx.signature

CxAccepted ==
    /\ validateAddress(cx.address) = "valid"
    /\ MatchesPublicKeyFormat(cx.publicKey)

\* C8: for a valid address and a well-formed public key, verifyAttestation
\* returns true for the signature signAttestation produced for them.
C8_SignThenVerify ==
    (cx.pc = "verified" /\ CxSameTriple /\ CxAccepted) => cx.verdict = Some(TRUE)

C8_Witness ==
    /\ cx.pc = "verified"
    /\ CxSameTriple
    /\ CxAccepted
    /\ cx.verdict = Some(TRUE)

CxSignatureBytesDiffer ==
    bufferFromBase64(cx.signature2) # bufferFromBase64(cx.signature)

\* C9 as claimed: when the authority signed a valid address and a well-formed
\* public key, a triple that differs from the signed one in the signature
\* bytes, in the address string or in the public key string is rejected.
C9_AnyDifferenceRejected ==
    (/\ cx.pc = "verified"
     /\ CxAccepted
     /\ \/ CxSignatureBytesDiffer
        \/ cx.address2 # cx.address
        \/ cx.publicKey2 # cx.publicKey)
    => cx.verdict = Some(FALSE)

\* C9 amended: a triple that differs from the signed one in the signature
\* bytes, in the lowercased address or in the public key string is rejected.
C9_DifferenceUpToCaseRejected ==
    (/\ cx.pc = "verified"
     /\ \/ CxSignatureBytesDiffer
        \/ toLowerCase(cx.address2) # toLowerCase(cx.address)
        \/ cx.publicKey2 # cx.publicKey)
    => cx.verdict = Some(FALSE)

\* A signature with one byte changed has been presented and rejected.
C9_Witness ==
    /\ cx.pc = "verified"
    /\ cx.address2 = cx.address
    /\ cx.publicKey2 = cx.publicKey
    /\ CxSignatureBytesDiffer
    /\ Len(bufferFromBase64(cx.signature2)) = Len(bufferFromBase64(cx.signature))
    /\ cx.verdict = Some(FALSE)

ExpectedLine1 ==
    <<"m", "e", "s", "h", "m", "a", "i", "l", ".", "a", "t", "t", "e", "s",
    "t", "a", "t", "i", "o", "n", ".", "v", "1">>

ExpectedAddressLabel ==
    <<"a", "d", "d", "r", "e", "s", "s", ":", " ">>

ExpectedPubkeyLabel ==
    <<"p", "u", "b", "k", "e", "y", "_", "e", "d", "2", "5", "5", "1", "9",
    "_", "h", "e", "x", ":", " ">>

ExpectedMessage(address, publicKeyHex) ==
    ExpectedLine1 \o <<"\n">> \o ExpectedAddressLabel \o toLowerCase(address)
        \o <<"\n">> \o ExpectedPubkeyLabel \o publicKeyHex

\* C10: the client and the server both build exactly the lines
\* 'meshmail.attestation.v1', 'address: ' + lowercase(a) and
\* 'pubkey_ed25519_hex: ' + k joined by single newlines with no trailing
\* newline; so the two agree, the message for a equals the message for
\* lowercase(a), and a second call returns the same message.
C10_CanonicalMessage ==
    cx.pc = "built" =>
        /\ cx.clientMessage = ExpectedMessage(cx.address, cx.publicKey)
        /\ cx.serverMessage = ExpectedMessage(cx.address, cx.publicKey)
        /\ cx.clientMessage = cx.serverMessage
        /\ cx.clientMessage = cx.clientMessageLower
        /\ cx.clientMessage = cx.clientMessageAgain

\* The message was built for an address with capital letters.
C10_Witness ==
    /\ cx.pc = "built"
    /\ cx.address # toLowerCase(cx.address)
    /\ cx.clientMessage = cx.serverMessage

(***************************************************************************)
(* The recovery code.                                                      *)
(***************************************************************************)
\* The restore in progress or finished was given the text that
\* generateBackupCode returned.
RestoredOwnCode ==
    /\ bk.pc = "carried"
    /\ restore.pc # "idle"
    /\ bk.pasted = bk.code

\* restoreFromBackup has returned.
RestoreWritten == restore.pc \in {"loadHandle", "alert", "done"}

\* C11: when the private key, the public key, the handle and the signature
\* are all present, restoreFromBackup(generateBackupCode()) succeeds and
\* leaves the four stored values equal to those before the encode, on an
\* empty store and on one that holds other credentials: decoding never
\* rejects the code (the only failure is a store write that rejects), the
\* values about to be written are those encoded, and once restoreFromBackup
\* has returned the four stored values are those encoded.
C11_BackupRoundTrip ==
    RestoredOwnCode =>
        /\ \A k \in KEYS : ~Missing(bk.origin[k])
        /\ restore.pc = "failed" => restore.error = RestoreWriteError
        /\ restore.pc # "failed" =>
              /\ Some(restore.backup.privateKey) = bk.origin[PRIVATE_KEY]
              /\ Some(restore.backup.publicKey) = bk.origin[PUBLIC_KEY]
              /\ Some(restore.backup.handle) = bk.origin[MESH_HANDLE]
              /\ Some(restore.backup.signature) = bk.origin[AUTHORITY_SIGNATURE]
        /\ RestoreWritten => \A k \in KEYS : store[k] = bk.origin[k]

\* A code for a handle with a quote in it was restored onto an empty store.
C11_Witness ==
    /\ RestoredOwnCode
    /\ restore.pc = "done"
    /\ bk.storeAtPaste = EmptyStore
    /\ "\"" \in Range(The(bk.origin[MESH_HANDLE]))
    /\ \A k \in KEYS : store[k] = bk.origin[k]

\* The bundle each pasted text decodes to: ok is FALSE when the text is not
\* base64 of JSON text.
BundleOf(text) ==
    LET json == base64Decode(trim(text))
    IN  IF json.ok THEN jsonParse(json.value) ELSE JsonFailure

BundleTable == [text \in BkPastedTexts |-> BundleOf(text)]

PastedBundle == BundleTable[bk.pasted]

BundleHasVersion1 ==
    /\ KeyVersion \in DOMAIN PastedBundle.value
    /\ PastedBundle.value[KeyVersion] = JsonNumber(1)

BundleFieldNonEmpty(key) ==
    /\ key \in DOMAIN PastedBundle.value
    /\ PastedBundle.value[key].type = "string"
    /\ PastedBundle.value[key].text # <<>>

BundleComplete ==
    /\ BundleFieldNonEmpty(KeyHandle)
    /\ BundleFieldNonEmpty(KeyPrivateKey)
    /\ BundleFieldNonEmpty(KeyPublicKey)
    /\ BundleFieldNonEmpty(KeySignature)

RestoreRejected(error) ==
    /\ restore.pc = "failed"
    /\ restore.error = error
    /\ store = bk.storeAtPaste

\* C12: restoreFromBackup writes to the secure store only if the decoded
\* bundle has version 1 and a non-empty handle, privateKey, publicKey and
\* signature; a bundle of any other version fails with the unsupported
\* version error whatever else it holds; a version 1 bundle without one of
\* the four fields fails with the invalid format error; in both cases every
\* secure-store key is as it was.
C12_RestoreValidates ==
    (bk.pc = "carried" /\ restore.pc # "idle") =>
        /\ (PastedBundle.ok /\ ~BundleHasVersion1) =>
              RestoreRejected("Failed to restore backup: Unsupported backup version")
        /\ (PastedBundle.ok /\ BundleHasVersion1 /\ ~BundleComplete) =>
              RestoreRejected("Failed to restore backup: Invalid backup format")
        /\ store # bk.storeAtPaste =>
              PastedBundle.ok /\ BundleHasVersion1 /\ BundleComplete
        /\ restore.pc \notin {"failed", "stopped"} =>
              PastedBundle.ok /\ BundleHasVersion1 /\ BundleComplete

\* A bundle of version 2 with an empty handle was pasted on a store that
\* holds credentials, and refused.
C12_Witness ==
    /\ bk.pc = "carried"
    /\ restore.pc = "failed"
    /\ PastedBundle.ok
    /\ {KeyVersion, KeyHandle} \subseteq DOMAIN PastedBundle.value
    /\ PastedBundle.value[KeyVersion] = JsonNumber(2)
    /\ PastedBundle.value[KeyHandle] = JsonString(<<>>)
    /\ restore.error = "Failed to restore backup: Unsupported backup version"
    /\ \A k \in KEYS : store[k] # None
    /\ store = bk.storeAtPaste

(***************************************************************************)
(* Claims about the address validators.                                    *)
(***************************************************************************)
\* The reason of the first failing check in the order required,
\* must_be_lowercase, invalid_format, must_start_with_letter,
\* reserved_prefix, stated without the validator's own definitions.
FirstFailingCheck(raw) ==
    LET t == trim(raw)
        allowed == LowerLetters \cup Digits \cup {"."}
    IN  IF t = <<>> THEN "required"
        ELSE IF \E i \in DOMAIN t : t[i] \in UpperLetters THEN "must_be_lowercase"
        ELSE IF Len(t) > 16 \/ \E i \in DOMAIN t : t[i] \notin allowed
             THEN "invalid_format"
        ELSE IF t[1] \notin LowerLetters THEN "must_start_with_letter"
        ELSE IF \E i \in DOMAIN RESERVED_PREFIXES :
                   /\ Len(RESERVED_PREFIXES[i]) <= Len(t)
                   /\ SubSeq(t, 1, Len(RESERVED_PREFIXES[i])) = RESERVED_PREFIXES[i]
             THEN "reserved_prefix"
        ELSE "valid"

\* C13: the backend validateAddress returns the reason of the first failing
\* check in the order required (empty after trim), must_be_lowercase,
\* invalid_format, must_start_with_letter, reserved_prefix, and valid
\* otherwise; 'help123' gives reserved_prefix, 'Abc' must_be_lowercase,
\* '1abc' must_start_with_letter and 'ab' is valid.
C13_FirstFailingCheck ==
    va.pc # "idle" =>
        /\ va.backend = FirstFailingCheck(va.input)
        /\ va.input = <<"h", "e", "l", "p", "1", "2", "3">> => va.backend = "reserved_prefix"
        /\ va.input = <<"A", "b", "c">> => va.backend = "must_be_lowercase"
        /\ va.input = <<"1", "a", "b", "c">> => va.backend = "must_start_with_letter"
        /\ va.input = <<"a", "b">> => va.backend = "valid"

\* The check behind each text of the client validator.  'Required', 'Max 16
\* characters' and 'Letters, numbers, periods only' are the three texts of
\* the one format test.
ClientFailingCheck(error) ==
    CASE error = "valid" -> "valid"
      [] error = "Must be lowercase" -> "must_be_lowercase"
      [] error \in {"Required", "Max 16 characters",
                    "Letters, numbers, periods only"} -> "invalid_format"
      [] error = "Must start with a letter" -> "must_start_with_letter"
      [] error = "prefix is reserved" -> "reserved_prefix"

\* C14: for every input text, the empty text and texts with leading or
\* trailing whitespace included, the client's validateAddressFormat and the
\* backend's validateAddress give the same verdict: both accept, or both
\* reject for the same failing check.
C14_ValidatorsAgree ==
    va.pc # "idle" => ClientFailingCheck(va.client) = va.backend

(***************************************************************************)
(* Claims about what registerAddressAction signs.                          *)
(***************************************************************************)
\* ^[a-f0-9]{64}$
LowercaseHexKey(publicKey) ==
    /\ Len(publicKey) = 64
    /\ \A i \in DOMAIN publicKey : publicKey[i] \in Range(HexDigits)

\* signAttestation was called in this run: it returned or it threw.
SignCalled(run) == run.signature # None \/ run.error = "KMS signing failed"

\* C15: registerAddressAction calls signAttestation only with a public key
\* of 64 lowercase hex characters (no capitals) and an address that passed
\* the validator; a request with any other public key is rejected before
\* the availability query, the signing call and the insert.
C15_SignsOnlyLowercaseHexKeys ==
    \A r \in RunIds :
        /\ SignCalled(runs[r]) =>
              /\ LowercaseHexKey(runs[r].publicKey)
              /\ validateAddress(runs[r].trimmed) = "valid"
        /\ (runs[r].pc # "idle" /\ ~LowercaseHexKey(runs[r].publicKey)) =>
              /\ runs[r].pc = "failed"
              /\ runs[r].error = "Invalid public key format"
              /\ runs[r].signature = None

(***************************************************************************)
(* Claims about verifyAttestation on malformed input.                      *)
(***************************************************************************)
CxMalformed ==
    \/ cx.signature2 \in MalformedSignatures
    \/ cx.publicKey2 \in MalformedKeys

\* C16: verifyAttestation returns a boolean for every input triple (empty
\* texts, a signature that is not base64 or has the wrong length, a public
\* key that is not hex): every parse failure or mismatch yields false, and
\* the call never throws.
C16_VerifyNeverThrows ==
    cx.pc = "verified" =>
        /\ cx.outcome \in {"true", "false"}
        /\ cx.verdict = Some(cx.outcome = "true")
        /\ CxMalformed => cx.outcome = "false"

\* A text that is not base64 was verified with a key that is not hex:
\* ed25519.verify threw and verifyAttestation returned false.
C16_Witness ==
    /\ cx.pc = "verified"
    /\ cx.signature2 = <<"!", "?", " ", "#">>
    /\ cx.publicKey2 = <<"z", "z">>
    /\ verifyAttestationTry(cx.address2, cx.publicKey2, cx.signature2) = "threw"
    /\ cx.outcome = "false"
    /\ cx.verdict = Some(FALSE)

(***************************************************************************)
(* Claims about the life of the key pair and the reset functions.          *)
(***************************************************************************)
KeyPairOf(st) == <<st[PRIVATE_KEY], st[PUBLIC_KEY]>>

\* This step draws a key pair, and the store held none.
GeneratesOnlyWhenAbsent ==
    life'.generated # life.generated => loadKeyPair(store) = None

\* This step is a write of initializeApp's saveKeyPair.
InitializeAppSaves == life.pc \in {"savePrivate", "savePublic"}

\* This step is a delete of deleteAllKeys or of resetAllData.
ExplicitResetDeletes == life.pc \in {"deleteAllKeys", "resetAllData"}

\* This step is a write of restoreFromBackup's saveKeyPair.
RestoreSaves == restore.pc \in {"savePrivate", "savePublic"}

\* C17 as stated: initializeApp generates and saves a key pair only when
\* hasKeyPair() is false, and a stored key pair is changed by nothing but an
\* explicit reset (deleteAllKeys, resetAllData): over launches, backups and
\* restores the device keeps the key pair first created.
C17_KeyPairChangedOnlyByReset ==
    [][ /\ GeneratesOnlyWhenAbsent
        /\ KeyPairOf(store') # KeyPairOf(store) =>
              InitializeAppSaves \/ ExplicitResetDeletes ]_vars

\* C17, amended: initializeApp generates and saves a key pair only when
\* hasKeyPair() is false, and the stored key pair is changed only by that
\* save, by an explicit reset or by restoreFromBackup, which replaces it with
\* the key pair of the recovery code.
C17_KeyPairChangedOnlyByResetOrRestore ==
    [][ /\ GeneratesOnlyWhenAbsent
        /\ KeyPairOf(store') # KeyPairOf(store) =>
              InitializeAppSaves \/ ExplicitResetDeletes \/ RestoreSaves ]_vars

\* The second launch found the key pair a restore had stored in place of the
\* one the first launch created, and drew no new one.
C17_Witness ==
    /\ life.launches = 2
    /\ life.pc = "running"
    /\ life.generated = 1
    /\ life.resets = 0
    /\ loadKeyPair(store) = Some(OtherKeyPair)
    /\ app.keyPair = Some(OtherKeyPair)

\* deleteAllKeys has returned; resetAllData has returned.
DeleteAllKeysReturned == life.pc = "deleted"
ResetAllDataReturned == life.pc = "hasKeyPair" /\ life.storeBefore # None

OtherKeysUnchanged ==
    \A k \in STORE_KEYS \ KEYS : store[k] = The(life.storeBefore)[k]

\* C19: deleteAllKeys removes the private key, the public key and the
\* authority signature and leaves the stored handle as it was; resetAllData
\* removes all four; both leave every other secure-store key
\* (lastBackupSaved, notifications) as it was.
C19_ResetFrame ==
    /\ DeleteAllKeysReturned =>
          /\ store[PRIVATE_KEY] = None
          /\ store[PUBLIC_KEY] = None
          /\ store[AUTHORITY_SIGNATURE] = None
          /\ store[MESH_HANDLE] = The(life.storeBefore)[MESH_HANDLE]
          /\ OtherKeysUnchanged
    /\ ResetAllDataReturned =>
          /\ \A k \in KEYS : store[k] = None
          /\ OtherKeysUnchanged

\* deleteAllKeys has returned on a store that held the four credentials, the
\* date of the last backup and the notifications.
C19_Witness ==
    /\ DeleteAllKeysReturned
    /\ \A k \in STORE_KEYS : The(life.storeBefore)[k] # None
    /\ store[MESH_HANDLE] = Some(Alice)
    /\ store[LAST_BACKUP_SAVED] # None
    /\ store[NOTIFICATIONS] # None
    /\ store[PRIVATE_KEY] = None

(***************************************************************************)
(* Claims about re-submission from SetupScreen.                            *)
(***************************************************************************)
\* This step is handleSubmit starting; this step is handleRestoreAccount
\* calling restoreFromBackup with a code it goes on to write.
SubmitStarts == submit' # submit /\ submit'.pc = "loadPrivate"
RestoreStarts == restore' # restore /\ restore'.pc = "savePrivate"

\* C18: at most one registration attempt of a SetupScreen is outstanding:
\* from the start of handleSubmit until its call of registerAddressAction
\* has resolved or failed, isSubmitting is set and neither Continue nor the
\* keyboard submit starts a second call; and at most one restoreFromBackup
\* is outstanding, during which isRestoring is set.
C18_SingleFlight ==
    [][ /\ (SubmitInProgress /\ Mounted) => screen.isSubmitting
        /\ (RestoreInProgress /\ Mounted) => screen.isRestoring
        /\ SubmitStarts => ~SubmitInProgress /\ ~screen.isSubmitting
        /\ RestoreStarts => ~RestoreInProgress /\ ~screen.isRestoring ]_vars

\* The second attempt's call is outstanding (the first one failed) while a
\* restore is in progress: both flags are set.
C18_Witness ==
    /\ Mounted
    /\ submit.pc = "call"
    /\ submit.run = 2
    /\ screen.isSubmitting
    /\ RestoreInProgress
    /\ screen.isRestoring

(***************************************************************************)
(* Claims about the availability query.                                    *)
(***************************************************************************)
\* A record for the normalised form of the text is in the table.
RecordExists(table, text) ==
    \E i \in DOMAIN table : table[i].address = toLowerCase(trim(text))

\* C20: isAddressAvailable returns available = true exactly when the address
\* passes the validator and no users record exists for its normalised form,
\* the reason 'taken' exactly when the address is valid and a record exists,
\* and the validator's reason when the address is invalid; the query never
\* changes the users table.
C20_AvailabilityResult ==
    va.pc = "queried" =>
        LET valid == va.backend = "valid"
            exists == RecordExists(va.usersBefore, va.input)
        IN  /\ va.result.available = (valid /\ ~exists)
            /\ (va.result.reason = "taken") = (valid /\ exists)
            /\ ~valid => va.result.reason = va.backend
            /\ users = va.usersBefore

\* A padded text whose normalised form is taken was queried.
C20_Witness ==
    /\ va.pc = "queried"
    /\ va.input = <<" ", "a", "b", " ">>
    /\ RecordExists(users, va.input)
    /\ va.result = [available |-> FALSE, reason |-> "taken"]

(***************************************************************************)
(* Validators under lowercasing (C21).                                     *)
(***************************************************************************)
BackendVerdicts ==
    {"valid", "invalid_format", "must_start_with_letter", "reserved_prefix",
     "must_be_lowercase"}

ClientVerdicts ==
    {"valid", "Must be lowercase", "Required", "Max 16 characters",
     "Letters, numbers, periods only", "Must start with a letter",
     "prefix is reserved"}

\* C21: for every text, each validator returns a verdict (it does not throw),
\* returns the same verdict when called again with the same text, and returns
\* for the lowercased text the verdict it returns for the text itself, unless
\* that verdict is the must-be-lowercase one.
C21_LowercaseAgrees ==
    va.pc # "idle" =>
        /\ va.backend \in BackendVerdicts
        /\ va.client \in ClientVerdicts
        /\ va.backendAgain = va.backend
        /\ va.clientAgain = va.client
        /\ va.backend # "must_be_lowercase" => va.backendLower = va.backend
        /\ va.client # "Must be lowercase" => va.clientLower = va.client

\* A padded text without capitals was validated as given and lowercased: the
\* backend refuses both for the reserved prefix, the client for the padding.
C21_Witness ==
    /\ va.pc = "validated"
    /\ va.input = <<" ", "h", "e", "l", "p">>
    /\ va.backend = "reserved_prefix"
    /\ va.backendLower = "reserved_prefix"
    /\ va.client = "Letters, numbers, periods only"

(***************************************************************************)
(* generateBackupCode and the secure store (C22).                          *)
(***************************************************************************)
CredentialAbsent(st) == \E k \in KEYS : st[k] = None

BackupCodeReturned == bk.pc = "idle" /\ bk'.pc \in {"generated", "failed"}

BackupCodeOutcome ==
    /\ bk.pc = "failed" =>
            /\ CredentialAbsent(bk.origin)
            /\ bk.error = "Missing credentials - cannot generate backup"
    /\ bk.pc = "generated" => ~CredentialAbsent(bk.origin)

\* C22: generateBackupCode fails, with the missing-credentials error, exactly
\* when the private key, the public key, the handle or the authority
\* signature is absent from the secure store it reads, and the step in which
\* it runs leaves the secure store as it was, whether it succeeds or fails.
C22_BackupCodeNeedsAllCredentials ==
    /\ []BackupCodeOutcome
    /\ [][BackupCodeReturned => (store' = store /\ bk'.origin = store)]_vars

\* generateBackupCode failed on a store that holds the handle but no private
\* key, left behind by a reset or a key deletion in progress.
C22_Witness ==
    /\ bk.pc = "failed"
    /\ bk.origin[PRIVATE_KEY] = None
    /\ bk.origin[MESH_HANDLE] # None
    /\ store = bk.origin

(***************************************************************************)
(* A failure of generateKeyPair in initializeApp (C23).                    *)
(***************************************************************************)
\* generateKeyPair has failed in this launch, which is not over.
GenerateKeyPairFailed == life.generateFailed /\ app.appState # "stopped"

PrivateKeys ==
    {DeviceKeyPair.privateKey} \cup {backup.privateKey : backup \in Backups}

\* The texts in the arguments of the requests sent so far: the address of
\* each isAddressAvailable query, the address and the publicKey of each
\* registerAddressAction call.
RequestTexts ==
    {checks[i].handle : i \in DOMAIN checks}
        \cup {runs[r].address : r \in {q \in RunIds : runs[q].pc # "idle"}}
        \cup {runs[r].publicKey : r \in {q \in RunIds : runs[q].pc # "idle"}}

\* C24: no argument of an isAddressAvailable query or of a
\* registerAddressAction call sent by the device is a private key, whether
\* the key the installation generated or one restored from a backup, in
\* every sequence of registrations, retries and restores.
C24_PrivateKeyNeverSent == RequestTexts \cap PrivateKeys = {}

\* A registration was retried after the first call was lost: two calls have
\* gone out, each with the public key of the store.
C24_Witness ==
    /\ submit.pc = "call"
    /\ submit.run = 2
    /\ submit.privateKey = store[PRIVATE_KEY]
    /\ runs[2].publicKey = The(store[PUBLIC_KEY])
    /\ runs[1].pc # "idle"

(***************************************************************************)
(* The records of the users table (C25, C26).                              *)
(***************************************************************************)
\* The Address invariants: 1 to 16 characters of [a-z0-9.], the first a
\* letter, no reserved prefix, no whitespace around it.
AddressInvariants(address) ==
    /\ MatchesAddressFormat(address)
    /\ StartsWithLetter(address)
    /\ ~HasReservedPrefix(address)
    /\ trim(address) = address

\* C25: every record of the users table has an address that satisfies the
\* Address invariants, whether it was inserted by a registerAddressAction run
\* or by a direct call of registerAddressMutation, also one with whitespace
\* around the address.
C25_RecordAddressesCanonical ==
    \A i \in DOMAIN users : AddressInvariants(users[i].address)

\* The signature of the record verifies, under the authority's public key,
\* against the canonical message for the record's address and public key.
RecordAttested(record) ==
    verifyAttestation(record.address, record.publicKey, record.signature)

\* C26: every record of the users table carries a signature that the
\* authority produced over buildAttestationMessage(record.address,
\* record.publicKey), for every sequence of registerAddressAction and
\* registerAddressMutation calls made by clients with arguments of their
\* choice.
C26_RecordsAttested == \A i \in DOMAIN users : RecordAttested(users[i])

(***************************************************************************)
(* The credentials of an app in state 'ready' (C27, C28).                  *)
(***************************************************************************)
\* The two keys are the halves of one key pair: one that generateKeyPair
\* drew on this device or the one of the recovery code.
IsKeyPair(privateKey, publicKey) ==
    \/ \E n \in 1..MaxKeyPairs :
          generateKeyPair(n) = [privateKey |-> privateKey,
                                publicKey |-> publicKey]
    \/ OtherKeyPair = [privateKey |-> privateKey, publicKey |-> publicKey]

\* The store holds the four credentials, the keys are one key pair, and
\* the signature attests the stored handle with the stored public key.
CredentialsBelongTogether(st) ==
    /\ \A k \in KEYS : st[k] # None
    /\ IsKeyPair(The(st[PRIVATE_KEY]), The(st[PUBLIC_KEY]))
    /\ verifyAttestation(The(st[MESH_HANDLE]), The(st[PUBLIC_KEY]),
                         The(st[AUTHORITY_SIGNATURE]))

\* C27: whenever the app is in state 'ready' with no function of it in
\* progress, the secure store holds a key pair, a handle and an authority
\* signature that belong together, so that generateBackupCode cannot fail
\* for missing credentials; across launches, restores and resets, also
\* when the app was stopped between two secure-store operations.
C27_ReadyHasCredentials ==
    (app.appState = "ready" /\ life.pc = "running") =>
        CredentialsBelongTogether(store)

\* C28: whenever the app is in state 'ready' with no function of it in
\* progress, the public key App passes to MainScreen is the public key held
\* in the secure store, also after an account was restored from a backup on
\* SetupScreen.
C28_ShownKeyIsStoredKey ==
    (app.appState = "ready" /\ life.pc = "running") =>
        store[PUBLIC_KEY] = Some(MainScreenPublicKey(app))

(***************************************************************************)
(* SetupScreen's checking flag (C29).                                      *)
(***************************************************************************)
\* The check the latest effect started is for the handle now in the field
\* and its timer or its query is still outstanding.
CurrentCheckPending ==
    /\ checks # <<>>
    /\ checks[Len(checks)].handle = trim(screen.handle)
    /\ checks[Len(checks)].state \in {"timer", "inflight"}

\* C29: on a mounted SetupScreen checking is true exactly while the
\* availability check (debounce timer or query) for the current handle is
\* pending: it is false whenever none is outstanding, also after the handle
\* was cleared, and true while one is, so that Continue stays disabled
\* until the check for the current handle has finished.
C29_CheckingIffPending ==
    Mounted => (screen.checking <=> CurrentCheckPending)

(***************************************************************************)
(* Concurrent calls on the list of notifications (C30).                    *)
(***************************************************************************)
\* No notification that is stored as viewed is stored as unviewed after
\* this step.
ViewedStaysViewed ==
    LET before == getNotifications(store)
        after == getNotifications(store')
    IN  \A i \in DOMAIN before, j \in DOMAIN after :
            (before[i].id = after[j].id /\ before[i].isViewed)
                => after[j].isViewed

\* A call that writes in this step read its list after the last completed
\* write.
NoStaleOverwrite ==
    \A p \in NtProcs :
        (nt.procs[p].pc = "write" /\ nt'.procs[p].pc = "idle")
            => nt.procs[p].readAt = nt.writes

\* C30: under every interleaving of the periodic syncTasksAsNotifications
\* with markNotificationAsViewed and markAllNotificationsAsViewed, a
\* notification that has been marked viewed never becomes unviewed again,
\* and no completed write of the list is overwritten by a list that was
\* read before it.
C30_NoLostUpdate == [][ViewedStaysViewed /\ NoStaleOverwrite]_vars

====
